---- MODULE Spec2Model ----
(***************************************************************************)
(* PDF-to-structured-document pipeline of no-prompt-ai-app:                *)
(*   - PdfParser line builder  (createTextLine, joinTextItemsIntelligently)*)
(*   - BlockDetector           (heading -> table -> list -> paragraph)     *)
(*   - PdfLibExporter          (exportModifiedPdf, applyBlockEdit)         *)
(* Text is modelled as a sequence of one-character strings, so that the    *)
(* regular expressions, trims and splits of the source are computed on the *)
(* characters.  Numbers are integers; comparisons against fractional       *)
(* thresholds are cross-multiplied.                                        *)
(***************************************************************************)
EXTENDS Integers, Sequences, FiniteSets, TLC

VARIABLES
    textLines,       \* detectBlocks: the TextLine[] argument
    blocks,          \* detectBlocks: const blocks: BlockModel[]
    processedLines,  \* detectBlocks: const processedLines = new Set<number>() (1-based here)
    cleanedBlocks,   \* detectBlocks: the returned, filtered and sorted block list
    pc,              \* detectBlocks: position in the function body
    documentModel,   \* exportModifiedPdf: the DocumentModel argument (its pages)
    pdfPages,        \* exportModifiedPdf: per PDF page, the draw operations issued on it
    embedded,        \* exportModifiedPdf: the embedFont calls made on the PDFDocument
    pageIndex,       \* exportModifiedPdf: loop variable (0-based as in the source)
    blockCursor,     \* exportModifiedPdf: position in editedBlocks of the current page
    raised,          \* exportModifiedPdf: the blocks whose applyBlockEdit threw
    exportState,     \* exportModifiedPdf: "idle", "loaded", "saved" (returned) or "failed" (threw)
    editedBlock,     \* BlockEditor: useState<BlockModel>(block) while the editor is open, else <<>>
    textItems,       \* groupTextIntoLines: the glyph runs given to it
    itemIndex,       \* groupTextIntoLines: how many runs the for loop has taken
    currentLineItems, \* groupTextIntoLines: let currentLine
    currentY,        \* groupTextIntoLines: let currentY
    groupedLines,    \* groupTextIntoLines: const lines
    job,             \* the row of table jobs: status and progress
    documentStatus,  \* meta_json.status of the row of table documents
    ocrPc            \* processOcrJob: position in the function body

detVars == <<textLines, blocks, processedLines, cleanedBlocks, pc>>
expVars == <<documentModel, pdfPages, embedded, pageIndex, blockCursor, raised, exportState>>
edVars == <<editedBlock>>
lineVars == <<textItems, itemIndex, currentLineItems, currentY, groupedLines>>
ocrVars == <<job, documentStatus, ocrPc>>
auxVars == <<lineVars, ocrVars>>
vars == <<detVars, expVars, edVars, auxVars>>

----------------------------------------------------------------------------
(* Bounds of the model *)
MaxLines == 3          \* text lines on the page given to detectBlocks
MaxBlocks == 2         \* blocks in the exported document
NumPages == 2          \* pages of the exported document
MaxRuns == 2           \* glyph runs given to the Line Builder
MaxItems == 3          \* text items given to PdfTextExtractor.groupTextIntoLines

----------------------------------------------------------------------------
(* Characters and strings *)

LowerSeq == <<"a","b","c","d","e","f","g","h","i","j","k","l","m",
              "n","o","p","q","r","s","t","u","v","w","x","y","z">>
UpperSeq == <<"A","B","C","D","E","F","G","H","I","J","K","L","M",
              "N","O","P","Q","R","S","T","U","V","W","X","Y","Z">>
LowerCh == {LowerSeq[i] : i \in 1..26}
UpperCh == {UpperSeq[i] : i \in 1..26}
DigitSeq == <<"0","1","2","3","4","5","6","7","8","9">>
DigitCh == {DigitSeq[i] : i \in 1..10}
SpaceCh == {" ", "\t", "\n"}

IsDigit(c) == c \in DigitCh
IsSpace(c) == c \in SpaceCh
IsAlnum(c) == c \in LowerCh \cup UpperCh \cup DigitCh

UpperOf(c) == IF c \in LowerCh THEN UpperSeq[CHOOSE i \in 1..26 : LowerSeq[i] = c] ELSE c
LowerOf(c) == IF c \in UpperCh THEN LowerSeq[CHOOSE i \in 1..26 : UpperSeq[i] = c] ELSE c
toUpperCase(s) == [i \in 1..Len(s) |-> UpperOf(s[i])]
toLowerCase(s) == [i \in 1..Len(s) |-> LowerOf(s[i])]

RECURSIVE trimStart(_)
trimStart(s) == IF s # <<>> /\ IsSpace(Head(s)) THEN trimStart(Tail(s)) ELSE s
RECURSIVE trimEnd(_)
trimEnd(s) == IF s # <<>> /\ IsSpace(s[Len(s)]) THEN trimEnd(SubSeq(s, 1, Len(s) - 1)) ELSE s
trim(s) == trimEnd(trimStart(s))

startsWith(s, p) == Len(s) >= Len(p) /\ SubSeq(s, 1, Len(p)) = p
includes(s, sub) == \E i \in 1..(Len(s) - Len(sub) + 1) : SubSeq(s, i, i + Len(sub) - 1) = sub

Repeat(c, n) == [i \in 1..n |-> c]

RECURSIVE Concat(_)
Concat(ss) == IF ss = <<>> THEN <<>> ELSE Head(ss) \o Concat(Tail(ss))

RECURSIVE JoinWith(_, _)
JoinWith(ss, sep) ==
    IF ss = <<>> THEN <<>>
    ELSE IF Len(ss) = 1 THEN ss[1]
    ELSE ss[1] \o sep \o JoinWith(Tail(ss), sep)

(* first position q >= p with s[q] not in the class cls, Len(s)+1 if none *)
SkipWhile(s, p, cls) ==
    IF p > Len(s) THEN p
    ELSE CHOOSE q \in p..(Len(s) + 1) :
            /\ q = Len(s) + 1 \/ s[q] \notin cls
            /\ \A r \in p..(q - 1) : s[r] \in cls

Min(S) == CHOOSE m \in S : \A n \in S : m <= n
Max(S) == CHOOSE m \in S : \A n \in S : m >= n
Abs(n) == IF n < 0 THEN -n ELSE n
RECURSIVE SumSeq(_)
SumSeq(s) == IF s = <<>> THEN 0 ELSE Head(s) + SumSeq(Tail(s))

(* Array.prototype.sort with a comparator is stable: an insertion sort  *)
(* that puts each element after the elements that do not compare greater.  *)
InsertAt(sorted, k, e) == SubSeq(sorted, 1, k) \o <<e>> \o SubSeq(sorted, k + 1, Len(sorted))

----------------------------------------------------------------------------
(* PdfParser: the line builder that produces the TextLine[] of a page *)

(* ParsedTextItem, as parseTextContent builds it (height = fontSize) *)
ParsedTextItem(text, x, y, width, fontSize, fontWeight, fontFamily) ==
    [text |-> text, x |-> x, y |-> y, width |-> width, height |-> fontSize,
     fontSize |-> fontSize, fontWeight |-> fontWeight, fontStyle |-> "normal",
     color |-> "#000000", fontFamily |-> fontFamily]

shouldAddSpaceBetweenAnyMediumGap(current, next) ==
    LET gap == next.x - (current.x + current.width)
        fontSum == current.fontSize + next.fontSize
    IN  IF 40 * gap <= 3 * fontSum THEN FALSE ELSE TRUE

(* gap <= avgFontSize * 0.15  and  gap >= avgFontSize * 0.4, with          *)
(* avgFontSize = (current.fontSize + next.fontSize) / 2                    *)
shouldAddSpaceBetween(current, next) ==
    LET gap == next.x - (current.x + current.width)
        fontSum == current.fontSize + next.fontSize
        cur == trim(current.text)
        nxt == trim(next.text)
    IN  IF 40 * gap <= 3 * fontSum THEN FALSE
        ELSE IF 5 * gap >= fontSum THEN TRUE
        ELSE /\ cur # <<>> /\ IsAlnum(cur[Len(cur)])
             /\ nxt # <<>> /\ IsAlnum(nxt[1])

RECURSIVE joinFrom(_, _)
joinFrom(items, i) ==
    IF i > Len(items) THEN <<>>
    ELSE items[i].text
         \o (IF i < Len(items) /\ shouldAddSpaceBetween(items[i], items[i + 1])
             THEN <<" ">> ELSE <<>>)
         \o joinFrom(items, i + 1)

joinTextItemsIntelligently(items) ==
    IF Len(items) = 0 THEN <<>>
    ELSE IF Len(items) = 1 THEN items[1].text
    ELSE trim(joinFrom(items, 1))

RECURSIVE sortItemsByX(_)
sortItemsByX(items) ==
    IF items = <<>> THEN <<>>
    ELSE LET rest == sortItemsByX(SubSeq(items, 1, Len(items) - 1))
             last == items[Len(items)]
         IN  InsertAt(rest, Cardinality({i \in 1..Len(rest) : rest[i].x <= last.x}), last)

createTextLine(items) ==
    LET sortedItems == sortItemsByX(items)
        n == Len(sortedItems)
    IN  [items |-> sortedItems,
         text |-> trim(joinTextItemsIntelligently(sortedItems)),
         y |-> Min({sortedItems[i].y : i \in 1..n}),
         height |-> Max({sortedItems[i].height : i \in 1..n}),
         averageFontSize |-> SumSeq([i \in 1..n |-> sortedItems[i].fontSize]) \div n,
         bounds |-> [left |-> Min({sortedItems[i].x : i \in 1..n}),
                     right |-> Max({sortedItems[i].x + sortedItems[i].width : i \in 1..n}),
                     top |-> Min({sortedItems[i].y : i \in 1..n}),
                     bottom |-> Max({sortedItems[i].y + sortedItems[i].height : i \in 1..n})]]

----------------------------------------------------------------------------
(* The pages given to detectBlocks: each line is one of a few glyph-run    *)
(* layouts, placed at increasing Y (the line builder emits lines in        *)
(* ascending Y, more than its 5-unit tolerance apart).                     *)

Arial == <<"A","r","i","a","l">>
ArialBold == <<"A","r","i","a","l","-","B","o","l","d">>

RunsOf(kind, y) ==
    CASE kind = "body" ->
           <<ParsedTextItem(<<"S","o","m","e"," ","t","e","x","t">>, 50, y, 54, 10, "normal", Arial)>>
      [] kind = "bold10" ->
           <<ParsedTextItem(<<"N","o","t","e">>, 50, y, 24, 10, "bold", ArialBold)>>
      [] kind = "head13" ->
           <<ParsedTextItem(<<"I","n","t","r","o">>, 50, y, 39, 13, "bold", ArialBold)>>
      [] kind = "head24" ->
           <<ParsedTextItem(<<"T","i","t","l","e">>, 50, y, 72, 24, "bold", Arial)>>
      [] kind = "tiny24" ->
           <<ParsedTextItem(<<"a","b">>, 50, y, 29, 24, "bold", Arial)>>
      [] kind = "long13" ->
           <<ParsedTextItem(<<"T">> \o Repeat("a", 100), 50, y, 788, 13, "normal", Arial)>>
      [] kind = "item1" ->
           <<ParsedTextItem(<<"1","."," ","A","b">>, 50, y, 30, 10, "normal", Arial)>>
      [] kind = "item2" ->
           <<ParsedTextItem(<<"2","."," ","C","d">>, 50, y, 30, 10, "normal", Arial)>>
      [] kind = "itemRoman" ->
           <<ParsedTextItem(<<"i","."," ","A","b">>, 50, y, 30, 10, "normal", Arial)>>
      [] kind = "itemRomanIv" ->
           <<ParsedTextItem(<<"i","v",")"," ","C","d">>, 50, y, 36, 10, "normal", Arial)>>
      [] kind = "itemAlpha" ->
           <<ParsedTextItem(<<"a","."," ","A","b">>, 50, y, 30, 10, "normal", Arial)>>
      [] kind = "itemBullet" ->
           <<ParsedTextItem(<<"-"," ","A","b">>, 50, y, 24, 10, "normal", Arial)>>
      [] kind = "rowA" ->
           <<ParsedTextItem(<<"1">>, 96, y, 4, 10, "normal", Arial),
             ParsedTextItem(<<"a"," ">>, 101, y, 10, 10, "normal", Arial),
             ParsedTextItem(<<"b">>, 196, y, 4, 10, "normal", Arial),
             ParsedTextItem(<<"c">>, 201, y, 5, 10, "normal", Arial)>>
      [] kind = "rowTie" ->
           <<ParsedTextItem(<<"5">>, 100, y, 5, 10, "normal", Arial),
             ParsedTextItem(<<"m">>, 150, y, 5, 10, "normal", Arial),
             ParsedTextItem(<<"z">>, 200, y, 5, 10, "normal", Arial)>>
      [] kind = "narrow" ->
           <<ParsedTextItem(<<"a","b","c">>, 50, y, 9, 10, "normal", Arial)>>
      [] kind = "flat" ->
           <<ParsedTextItem(<<"f","i","n","e"," ","p","r","i","n","t">>, 50, y, 24, 4, "normal", Arial)>>
      [] kind = "rowB" ->
           <<ParsedTextItem(<<"7"," ">>, 300, y, 10, 10, "normal", Arial),
             ParsedTextItem(<<"y">>, 400, y, 5, 10, "normal", Arial)>>

(* the layouts of a general page, and those that exercise the heading rubric *)
LineKinds == {"body", "head13", "head24", "item1", "item2", "rowA", "rowB"}
HeadingLineKinds == {"body", "bold10", "head13", "head24", "tiny24", "long13"}
NoiseLineKinds == {"body", "tiny24", "narrow", "flat"}
TableLineKinds == {"body", "item1", "rowA", "rowB", "rowTie"}
ListLineKinds == {"body", "item1", "itemRoman", "itemRomanIv", "itemAlpha", "itemBullet"}

LineGaps == {12, 40}

RECURSIVE LineYs(_)
LineYs(gaps) ==
    IF gaps = <<>> THEN <<100>>
    ELSE LET ys == LineYs(SubSeq(gaps, 1, Len(gaps) - 1))
         IN  Append(ys, ys[Len(ys)] + gaps[Len(gaps)])

PageLines(kinds, gaps) ==
    LET ys == LineYs(gaps)
    IN  [i \in 1..Len(kinds) |-> createTextLine(RunsOf(kinds[i], ys[i]))]

IsPageOf(lines, kindSet) ==
    \E n \in 0..MaxLines :
        \E kinds \in [1..n -> kindSet], gaps \in [1..(n - 1) -> LineGaps] :
            lines = PageLines(kinds, gaps)

----------------------------------------------------------------------------
(* DocumentModelUtils *)

ArialSansSerif == <<"A","r","i","a","l",","," ","s","a","n","s","-","s","e","r","i","f">>
MonacoMonospace == <<"M","o","n","a","c","o",","," ","C","o","n","s","o","l","a","s",
                     ","," ","m","o","n","o","s","p","a","c","e">>

(* optional fields (headingLevel, listType, backgroundColor) are present   *)
(* only where the source sets them                                         *)
getDefaultStyle(blockType) ==
    LET baseStyle == [fontSize |-> 12, fontWeight |-> "normal", fontStyle |-> "normal",
                      fontFamily |-> ArialSansSerif, textAlign |-> "left",
                      color |-> "#000000"]
    IN  CASE blockType = "heading" ->
               [baseStyle EXCEPT !.fontSize = 18, !.fontWeight = "bold"]
                  @@ [headingLevel |-> 2]
          [] blockType = "quote" ->
               [baseStyle EXCEPT !.fontStyle = "italic", !.color = "#666666"]
          [] blockType = "code" ->
               [baseStyle EXCEPT !.fontFamily = MonacoMonospace]
                  @@ [backgroundColor |-> "#f5f5f5"]
          [] blockType = "list" -> baseStyle @@ [listType |-> "bullet"]
          [] OTHER -> baseStyle

----------------------------------------------------------------------------
(* BlockDetector *)

HEADING_MIN_FONT_SIZE == 14
HEADING_MAX_LENGTH == 100
TABLE_MIN_COLUMNS == 2
LIST_INDENT_THRESHOLD == 20
PARAGRAPH_MIN_LENGTH == 3

(* a BlockModel; srcLines is not a field of the source: it records the     *)
(* indices of the text lines whose text was put into the block's content   *)
BlockModel(type, content, position, style, confidence, srcLines) ==
    [type |-> type, content |-> content, position |-> position, style |-> style,
     metadata |-> [confidence |-> confidence, isEdited |-> FALSE],
     srcLines |-> srcLines]

StringContent(text) == [kind |-> "string", text |-> text]

(* /^\d+(\.\d+)*\.?\s/ *)
RECURSIVE SkipDotDigits(_, _)
SkipDotDigits(s, p) ==
    IF p + 1 <= Len(s) /\ s[p] = "." /\ IsDigit(s[p + 1])
    THEN SkipDotDigits(s, SkipWhile(s, p + 1, DigitCh))
    ELSE p

matchesHeadingNumbering(s) ==
    LET p1 == SkipWhile(s, 1, DigitCh)
        p2 == SkipDotDigits(s, p1)
        p3 == IF p2 <= Len(s) /\ s[p2] = "." THEN p2 + 1 ELSE p2
    IN  p1 > 1 /\ p3 <= Len(s) /\ IsSpace(s[p3])

(* /^[A-Z][a-z]/ *)
matchesCapitalizedStart(s) == Len(s) >= 2 /\ s[1] \in UpperCh /\ s[2] \in LowerCh

HeadingWords ==
    {<<"c","h","a","p","t","e","r">>, <<"s","e","c","t","i","o","n">>,
     <<"i","n","t","r","o","d","u","c","t","i","o","n">>,
     <<"c","o","n","c","l","u","s","i","o","n">>, <<"s","u","m","m","a","r","y">>,
     <<"o","v","e","r","v","i","e","w">>, <<"b","a","c","k","g","r","o","u","n","d">>,
     <<"m","e","t","h","o","d">>, <<"r","e","s","u","l","t">>,
     <<"d","i","s","c","u","s","s","i","o","n">>}

(* /^(chapter|section|...)/i *)
matchesHeadingWord(s) == \E w \in HeadingWords : startsWith(toLowerCase(s), w)

(* /^\d+\.\s/ and /^\d+\.\d+\.\s/ *)
matchesNumberDot(s) ==
    LET p == SkipWhile(s, 1, DigitCh)
    IN  p > 1 /\ p + 1 <= Len(s) /\ s[p] = "." /\ IsSpace(s[p + 1])

matchesNumberDotNumberDot(s) ==
    LET p == SkipWhile(s, 1, DigitCh)
        q == SkipWhile(s, p + 1, DigitCh)
    IN  /\ p > 1 /\ p <= Len(s) /\ s[p] = "."
        /\ q > p + 1 /\ q + 1 <= Len(s) /\ s[q] = "." /\ IsSpace(s[q + 1])

RECURSIVE sortAscending(_)
sortAscending(nums) ==
    IF nums = <<>> THEN <<>>
    ELSE LET rest == sortAscending(SubSeq(nums, 1, Len(nums) - 1))
             last == nums[Len(nums)]
         IN  InsertAt(rest, Cardinality({i \in 1..Len(rest) : rest[i] <= last}), last)

(* avgFontSize = sum / n is kept as the pair (sum, n):                     *)
(*   size >= avg * 1.2  <=>  10 * n * size >= 12 * sum                     *)
(*   size >= avg + 2    <=>  n * size >= sum + 2 * n                       *)
isLargeFontRelativeToContent(line, allLines) ==
    IF Len(allLines) = 0 THEN line.averageFontSize >= HEADING_MIN_FONT_SIZE
    ELSE LET fontSizes == [i \in 1..Len(allLines) |-> allLines[i].averageFontSize]
             n == Len(fontSizes)
             sum == SumSeq(fontSizes)
             sortedSizes == sortAscending(fontSizes)
             p75 == sortedSizes[((n * 3) \div 4) + 1]
             isSignificantlyLarger == 10 * n * line.averageFontSize >= 12 * sum
             isInTopQuartile == line.averageFontSize >= p75
             isSubstantiallyBigger == n * line.averageFontSize >= sum + 2 * n
         IN  (isSignificantlyLarger /\ isInTopQuartile) \/ isSubstantiallyBigger

headingScore(line, hasLargeFont) ==
    LET text == trim(line.text)
        isShortLine == Len(text) <= HEADING_MAX_LENGTH
        hasBoldFont == \E i \in 1..Len(line.items) :
                          \/ line.items[i].fontWeight = "bold"
                          \/ includes(toLowerCase(line.items[i].fontFamily),
                                      <<"b","o","l","d">>)
        hasNumbering == matchesHeadingNumbering(text)
        hasAllCaps == text = toUpperCase(text) /\ Len(text) > 3
        hasCapitalizedWords == matchesCapitalizedStart(text)
        hasCommonHeadingWords == matchesHeadingWord(text)
    IN  (IF hasLargeFont THEN 4 ELSE 0) + (IF isShortLine THEN 2 ELSE 0)
        + (IF hasBoldFont THEN 3 ELSE 0) + (IF hasNumbering THEN 2 ELSE 0)
        + (IF hasAllCaps THEN 2 ELSE 0) + (IF hasCapitalizedWords THEN 1 ELSE 0)
        + (IF hasCommonHeadingWords THEN 3 ELSE 0)

isHeadingCandidateMissingFontTest(line, allLines) ==
    LET text == trim(line.text)
    IN  IF Len(text) < 3 THEN FALSE
        ELSE headingScore(line, isLargeFontRelativeToContent(line, allLines)) >= 6

isHeadingCandidate(line, allLines) ==
    LET text == trim(line.text)
        hasLargeFont == isLargeFontRelativeToContent(line, allLines)
    IN  IF Len(text) < 3 THEN FALSE
        ELSE headingScore(line, hasLargeFont) >= 6 /\ hasLargeFont

(* determineHeadingLevel calls isHeadingCandidate(l) with no allLines, so  *)
(* the candidates it ranks are chosen with allLines = []                   *)
determineHeadingLevel(line, allLines) ==
    LET fontSize == line.averageFontSize
        uniqueSizes == {allLines[i].averageFontSize :
                          i \in {j \in 1..Len(allLines) : isHeadingCandidate(allLines[j], <<>>)}}
        sizeIndex == IF fontSize \in uniqueSizes
                     THEN Cardinality({u \in uniqueSizes : u > fontSize})
                     ELSE -1
        level == Min({sizeIndex + 1, 6})
    IN  IF matchesNumberDot(line.text) THEN Min({level, 2})
        ELSE IF matchesNumberDotNumberDot(line.text) THEN Min({level, 3})
        ELSE level

extractFontWeight(line) ==
    IF \E i \in 1..Len(line.items) : line.items[i].fontWeight = "bold"
    THEN "bold" ELSE "normal"

createHeadingBlock(line, lineIndex, level) ==
    BlockModel("heading", StringContent(trim(line.text)),
               [x |-> line.bounds.left, y |-> line.bounds.top,
                width |-> line.bounds.right - line.bounds.left,
                height |-> line.bounds.bottom - line.bounds.top],
               [getDefaultStyle("heading") EXCEPT
                    !.fontSize = line.averageFontSize,
                    !.fontWeight = extractFontWeight(line),
                    !.headingLevel = level],
               90, {lineIndex})

RECURSIVE detectHeadingsFrom(_, _)
detectHeadingsFrom(lines, i) ==
    IF i > Len(lines) THEN <<>>
    ELSE (IF isHeadingCandidate(lines[i], lines)
          THEN <<createHeadingBlock(lines[i], i, determineHeadingLevel(lines[i], lines))>>
          ELSE <<>>)
         \o detectHeadingsFrom(lines, i + 1)

detectHeadings(lines) == detectHeadingsFrom(lines, 1)

lineOverlapsWithBlock(line, block) ==
    ~ \/ line.bounds.right < block.position.x
      \/ line.bounds.left > block.position.x + block.position.width
      \/ line.bounds.bottom < block.position.y
      \/ line.bounds.top > block.position.y + block.position.height

markLinesAsProcessedNoop(lines, block, processed) == processed

markLinesAsProcessed(lines, block, processed) ==
    processed \cup {i \in 1..Len(lines) : lineOverlapsWithBlock(lines[i], block)}

RECURSIVE markAll(_, _, _)
markAll(lines, newBlocks, processed) ==
    IF newBlocks = <<>> THEN processed
    ELSE markAll(lines, Tail(newBlocks), markLinesAsProcessed(lines, Head(newBlocks), processed))

(* the lines not yet processed, as ascending indices into textLines *)
RECURSIVE availableFrom(_, _, _)
availableFrom(n, processed, i) ==
    IF i > n THEN <<>>
    ELSE (IF i \in processed THEN <<>> ELSE <<i>>) \o availableFrom(n, processed, i + 1)

availableLines(lines, processed) == availableFrom(Len(lines), processed, 1)

calculateGroupBounds(lines) ==
    IF Len(lines) = 0 THEN [left |-> 0, right |-> 0, top |-> 0, bottom |-> 0]
    ELSE [left |-> Min({lines[i].bounds.left : i \in 1..Len(lines)}),
          right |-> Max({lines[i].bounds.right : i \in 1..Len(lines)}),
          top |-> Min({lines[i].bounds.top : i \in 1..Len(lines)}),
          bottom |-> Max({lines[i].bounds.bottom : i \in 1..Len(lines)})]

groupPosition(lines) ==
    LET bounds == calculateGroupBounds(lines)
    IN  [x |-> bounds.left, y |-> bounds.top,
         width |-> bounds.right - bounds.left,
         height |-> bounds.bottom - bounds.top]

(* ---- tables ---- *)

(* const items = line.items.sort((a, b) => a.x - b.x): Array.prototype.sort *)
(* sorts the array of the line itself, for every line not yet processed     *)
sortItemsInPlaceKeepingFirst(lines, processed) ==
    [i \in 1..Len(lines) |->
        IF i \in processed THEN lines[i]
        ELSE [lines[i] EXCEPT !.items = SubSeq(@, 1, 1)]]

sortItemsInPlace(lines, processed) ==
    [i \in 1..Len(lines) |->
        IF i \in processed THEN lines[i]
        ELSE [lines[i] EXCEPT !.items = sortItemsByX(@)]]

hasMultipleColumns(line) ==
    LET items == sortItemsByX(line.items)
        gapCount == Cardinality({i \in 1..(Len(items) - 1) :
                        items[i + 1].x - (items[i].x + items[i].width) > 20})
    IN  gapCount >= 1

(* groups of >= 2 consecutive available lines that have multiple columns;  *)
(* avail is a sequence of line indices, so is every group                  *)
RECURSIVE alignedGroupsFrom(_, _, _, _)
alignedGroupsFrom(lines, avail, i, currentGroup) ==
    IF i > Len(avail)
    THEN (IF Len(currentGroup) >= 2 THEN <<currentGroup>> ELSE <<>>)
    ELSE IF hasMultipleColumns(lines[avail[i]])
         THEN alignedGroupsFrom(lines, avail, i + 1, Append(currentGroup, avail[i]))
         ELSE (IF Len(currentGroup) >= 2 THEN <<currentGroup>> ELSE <<>>)
              \o alignedGroupsFrom(lines, avail, i + 1, <<>>)

findAlignedTextGroups(lines, avail) == alignedGroupsFrom(lines, avail, 1, <<>>)

(* Math.round(pos / 10) * 10 *)
roundToTen(pos) == ((pos + 5) \div 10) * 10

allItemXs(lines) ==
    Concat([i \in 1..Len(lines) |->
              LET items == sortItemsByX(lines[i].items)
              IN  [k \in 1..Len(items) |-> items[k].x]])

(* positionCounts counts every item of every line, whichever line it is in *)
extractColumnPositions(lines) ==
    LET allPositions == allItemXs(lines)
        rounded == [k \in 1..Len(allPositions) |-> roundToTen(allPositions[k])]
        count(pos) == Cardinality({k \in 1..Len(rounded) : rounded[k] = pos})
        kept == {rounded[k] : k \in {j \in 1..Len(rounded) : count(rounded[j]) >= 2}}
    IN  [r \in 1..Cardinality(kept) |->
           CHOOSE q \in kept : Cardinality({u \in kept : u < q}) = r - 1]

(* number of pieces of text.split(/\s{2,}/): one more than the number of   *)
(* maximal whitespace runs of length >= 2                                  *)
splitOnSpaceRuns(s, p) ==
    1 + Cardinality({q \in p..(Len(s) - 1) :
                        /\ IsSpace(s[q]) /\ IsSpace(s[q + 1])
                        /\ q = p \/ ~IsSpace(s[q - 1])})

hasTabularContent(line) ==
    /\ \E k \in 1..Len(line.text) : IsDigit(line.text[k])
    /\ splitOnSpaceRuns(line.text, 1) >= 2

looksLikeTable(lines) ==
    IF Len(lines) < 2 THEN FALSE
    ELSE LET columnPositions == extractColumnPositions(lines)
             hasConsistentColumns == Len(columnPositions) >= TABLE_MIN_COLUMNS
         IN  /\ hasConsistentColumns
             /\ \E i \in 1..Len(lines) : hasTabularContent(lines[i])

closestColumnIndexRightmost(item, columnPositions) ==
    LET dist(i) == Abs(item.x - columnPositions[i])
        minDistance == Min({dist(i) : i \in 1..Len(columnPositions)})
    IN  Max({i \in 1..Len(columnPositions) : dist(i) = minDistance})
closestColumnIndex(item, columnPositions) ==
    LET dist(i) == Abs(item.x - columnPositions[i])
        minDistance == Min({dist(i) : i \in 1..Len(columnPositions)})
    IN  Min({i \in 1..Len(columnPositions) : dist(i) = minDistance})

RECURSIVE groupItemsFrom(_, _, _, _)
groupItemsFrom(items, columnPositions, k, cellTexts) ==
    IF k > Len(items) THEN cellTexts
    ELSE LET c == closestColumnIndex(items[k], columnPositions)
         IN  groupItemsFrom(items, columnPositions, k + 1,
                 [cellTexts EXCEPT ![c] =
                     @ \o (IF @ # <<>> THEN <<" ">> ELSE <<>>) \o items[k].text])

groupItemsByColumns(items, columnPositions) ==
    groupItemsFrom(items, columnPositions, 1, [i \in 1..Len(columnPositions) |-> <<>>])

(* /^\d+(\.\d+)?$/ *)
matchesBareNumber(s) ==
    LET p == SkipWhile(s, 1, DigitCh)
    IN  /\ p > 1
        /\ \/ p = Len(s) + 1
           \/ /\ p + 1 <= Len(s) /\ s[p] = "."
              /\ SkipWhile(s, p + 1, DigitCh) = Len(s) + 1

detectTableHeader(rows) ==
    IF Len(rows) = 0 THEN FALSE
    ELSE LET cells == rows[1].cells
             firstRowText == JoinWith([i \in 1..Len(cells) |-> cells[i].content], <<" ">>)
         IN  /\ matchesCapitalizedStart(firstRowText)
             /\ \A i \in 1..Len(cells) : Len(cells[i].content) < 50
             /\ ~ \E i \in 1..Len(cells) : matchesBareNumber(trim(cells[i].content))

createTableBlock(lines, group) ==
    LET groupLines == [i \in 1..Len(group) |-> lines[group[i]]]
        columnPositions == extractColumnPositions(groupLines)
        rows == [i \in 1..Len(groupLines) |->
                   LET cellTexts == groupItemsByColumns(sortItemsByX(groupLines[i].items),
                                                        columnPositions)
                   IN  [cells |-> [c \in 1..Len(cellTexts) |->
                                     [content |-> trim(cellTexts[c]),
                                      colspan |-> 1, rowspan |-> 1]]]]
    IN  BlockModel("table",
                   [kind |-> "table", rows |-> rows,
                    columnCount |-> Len(columnPositions),
                    hasHeader |-> detectTableHeader(rows)],
                   groupPosition(groupLines), getDefaultStyle("table"), 80,
                   {group[i] : i \in 1..Len(group)})

detectTables(lines, processed) ==
    LET groups == findAlignedTextGroups(lines, availableLines(lines, processed))
        isTable(g) == looksLikeTable([i \in 1..Len(g) |-> lines[g[i]]])
        tableGroups == SelectSeq(groups, isTable)
    IN  [k \in 1..Len(tableGroups) |-> createTableBlock(lines, tableGroups[k])]

(* ---- lists ---- *)

(* "BULLET" stands for the one character U+2022 *)
BulletCh == {"BULLET", "-", "*", "+"}
RomanCh == {"i","v","x","l","c","d","m","I","V","X","L","C","D","M"}
DotParenCh == {".", ")"}

(* /^[U+2022\-\*\+]\s/ *)
matchesBullet(s) == Len(s) >= 2 /\ s[1] \in BulletCh /\ IsSpace(s[2])
(* /^\d+[\.\)]\s/ *)
matchesNumberMarker(s) ==
    LET p == SkipWhile(s, 1, DigitCh)
    IN  p > 1 /\ p + 1 <= Len(s) /\ s[p] \in DotParenCh /\ IsSpace(s[p + 1])
(* /^[a-zA-Z][\.\)]\s/ *)
matchesLetterMarker(s) ==
    Len(s) >= 3 /\ s[1] \in LowerCh \cup UpperCh /\ s[2] \in DotParenCh /\ IsSpace(s[3])
(* /^[ivxlcdm]+[\.\)]\s/i *)
matchesRomanMarker(s) ==
    LET p == SkipWhile(s, 1, RomanCh)
    IN  p > 1 /\ p + 1 <= Len(s) /\ s[p] \in DotParenCh /\ IsSpace(s[p + 1])

isListItemCandidate(line) ==
    LET text == trim(line.text)
        hasBullet == matchesBullet(text)
        hasNumbering == matchesNumberMarker(text) \/ matchesLetterMarker(text)
        hasRoman == matchesRomanMarker(text)
    IN  hasBullet \/ hasNumbering \/ hasRoman

isContinuationLine(line, existingItems) ==
    IF Len(existingItems) = 0 THEN FALSE
    ELSE LET lastItem == existingItems[Len(existingItems)]
             isIndented == line.bounds.left > lastItem.bounds.left + LIST_INDENT_THRESHOLD
             isClose == Abs(line.bounds.top - lastItem.bounds.bottom) < lastItem.height
         IN  isIndented /\ isClose

(* the indices (into avail) collected from startIndex on *)
RECURSIVE collectFrom(_, _, _, _)
collectFrom(lines, avail, i, listItems) ==
    IF i > Len(avail) THEN listItems
    ELSE LET line == lines[avail[i]]
             existing == [k \in 1..Len(listItems) |-> lines[listItems[k]]]
         IN  IF isListItemCandidate(line) \/ isContinuationLine(line, existing)
             THEN collectFrom(lines, avail, i + 1, Append(listItems, avail[i]))
             ELSE listItems

collectListItems(lines, avail, startIndex) == collectFrom(lines, avail, startIndex, <<>>)

(* /^\d+[\.\)]/, /^[a-zA-Z][\.\)]/, /^[ivxlcdm]+[\.\)]/i, tested in this order *)
determineListType(line) ==
    LET text == trim(line.text)
        p == SkipWhile(text, 1, DigitCh)
        r == SkipWhile(text, 1, RomanCh)
    IN  IF p > 1 /\ p <= Len(text) /\ text[p] \in DotParenCh THEN "numbered"
        ELSE IF Len(text) >= 2 /\ text[1] \in LowerCh \cup UpperCh /\ text[2] \in DotParenCh
             THEN "alpha"
        ELSE IF r > 1 /\ r <= Len(text) /\ text[r] \in DotParenCh THEN "roman"
        ELSE "bullet"

(* the character class [U+2022\-\*\+\d+a-zA-Z\)\.\s] of the marker expressions *)
MarkerClassCh == BulletCh \cup DigitCh \cup LowerCh \cup UpperCh \cup {")", "."} \cup SpaceCh

(* text.match(/^([U+2022\-\*\+\d+a-zA-Z\)\.\s]+)/) *)
extractListMarker(text) ==
    LET p == SkipWhile(text, 1, MarkerClassCh)
    IN  IF p > 1 THEN trim(SubSeq(text, 1, p - 1)) ELSE <<"BULLET">>

(* line.text.replace(/^[U+2022\-\*\+\d+a-zA-Z\)\.\s]+/, '').trim() *)
stripListMarker(text) ==
    LET p == SkipWhile(text, 1, MarkerClassCh)
    IN  trim(SubSeq(text, p, Len(text)))

createListBlock(lines, group) ==
    LET groupLines == [i \in 1..Len(group) |-> lines[group[i]]]
        firstLine == groupLines[1]
        listType == determineListType(firstLine)
        itemIdx == SelectSeq(group, LAMBDA g : isListItemCandidate(lines[g]))
        items == [k \in 1..Len(itemIdx) |->
                    [content |-> stripListMarker(lines[itemIdx[k]].text),
                     level |-> 1,
                     marker |-> extractListMarker(lines[itemIdx[k]].text)]]
    IN  BlockModel("list",
                   [kind |-> "list", items |-> items, type |-> listType,
                    isOrdered |-> listType # "bullet"],
                   groupPosition(groupLines),
                   [getDefaultStyle("list") EXCEPT !.listType = listType], 85,
                   {itemIdx[k] : k \in 1..Len(itemIdx)})

RECURSIVE detectListsFrom(_, _, _)
detectListsFrom(lines, avail, i) ==
    IF i > Len(avail) THEN <<>>
    ELSE IF isListItemCandidate(lines[avail[i]])
         THEN LET listLines == collectListItems(lines, avail, i)
              IN  IF Len(listLines) >= 2
                  THEN <<createListBlock(lines, listLines)>>
                       \o detectListsFrom(lines, avail, i + Len(listLines))
                  ELSE detectListsFrom(lines, avail, i + 1)
         ELSE detectListsFrom(lines, avail, i + 1)

detectLists(lines, processed) == detectListsFrom(lines, availableLines(lines, processed), 1)

(* ---- paragraphs ---- *)

createParagraphBlock(lines, group) ==
    LET groupLines == [i \in 1..Len(group) |-> lines[group[i]]]
        text == trim(JoinWith([i \in 1..Len(groupLines) |-> groupLines[i].text], <<" ">>))
    IN  BlockModel("paragraph", StringContent(text), groupPosition(groupLines),
                   getDefaultStyle("paragraph"), 90,
                   {group[i] : i \in 1..Len(group)})

(* the loop of groupIntoParagraphs over the available lines sorted by Y;   *)
(* currentParagraph is a sequence of line indices                          *)
RECURSIVE paragraphsFrom(_, _, _, _)
paragraphsFrom(lines, avail, i, currentParagraph) ==
    IF i > Len(avail)
    THEN (IF Len(currentParagraph) > 0
          THEN <<createParagraphBlock(lines, currentParagraph)>> ELSE <<>>)
    ELSE LET line == lines[avail[i]]
             trimmedText == trim(line.text)
         IN  IF Len(trimmedText) = 0
             THEN paragraphsFrom(lines, avail, i + 1, currentParagraph)
             ELSE LET lastLine == lines[currentParagraph[Len(currentParagraph)]]
                      shouldStartNewParagraph ==
                          /\ Len(currentParagraph) > 0
                          /\ \/ Abs(line.y - lastLine.y) > 25
                             \/ Abs(line.averageFontSize - lastLine.averageFontSize) > 2
                      flushed == IF shouldStartNewParagraph
                                 THEN <<createParagraphBlock(lines, currentParagraph)>>
                                 ELSE <<>>
                      current == IF shouldStartNewParagraph THEN <<>> ELSE currentParagraph
                  IN  IF Len(trimmedText) >= PARAGRAPH_MIN_LENGTH
                      THEN flushed \o paragraphsFrom(lines, avail, i + 1,
                                                     Append(current, avail[i]))
                      ELSE IF Len(current) = 0
                      THEN flushed \o <<createParagraphBlock(lines, <<avail[i]>>)>>
                                   \o paragraphsFrom(lines, avail, i + 1, current)
                      ELSE flushed \o paragraphsFrom(lines, avail, i + 1, current)

(* .sort((a, b) => a.y - b.y), on the indices of the available lines *)
RECURSIVE sortLinesByY(_, _)
sortLinesByY(lines, idx) ==
    IF idx = <<>> THEN <<>>
    ELSE LET rest == sortLinesByY(lines, SubSeq(idx, 1, Len(idx) - 1))
             last == idx[Len(idx)]
         IN  InsertAt(rest,
                      Cardinality({i \in 1..Len(rest) : lines[rest[i]].y <= lines[last].y}),
                      last)

groupIntoParagraphsOnePerLine(lines, processed) ==
    LET avail == sortLinesByY(lines, availableLines(lines, processed))
    IN  [k \in 1..Len(avail) |-> createParagraphBlock(lines, <<avail[k]>>)]
groupIntoParagraphs(lines, processed) ==
    paragraphsFrom(lines, sortLinesByY(lines, availableLines(lines, processed)), 1, <<>>)

(* ---- post-processing ---- *)

keepsBlockIgnoringContent(block) ==
    /\ block.position.width >= 10
    /\ block.position.height >= 5

keepsBlock(block) ==
    /\ block.position.width >= 10
    /\ block.position.height >= 5
    /\ (block.content.kind = "string" => Len(trim(block.content.text)) >= 3)

postProcessBlocks(bs) == SelectSeq(bs, keepsBlock)

(* sort((a, b) => a.position.y - b.position.y || a.position.x - b.position.x) *)
RECURSIVE sortBlocks(_)
sortBlocks(bs) ==
    IF bs = <<>> THEN <<>>
    ELSE LET rest == sortBlocks(SubSeq(bs, 1, Len(bs) - 1))
             last == bs[Len(bs)]
             notAfter(b) == \/ b.position.y < last.position.y
                            \/ /\ b.position.y = last.position.y
                               /\ b.position.x <= last.position.x
         IN  InsertAt(rest, Cardinality({i \in 1..Len(rest) : notAfter(rest[i])}), last)

----------------------------------------------------------------------------
(* detectBlocks(textLines, pageNumber), one action per step of its body *)

DetectIdle ==
    /\ textLines = <<>> /\ blocks = <<>> /\ processedLines = {}
    /\ cleanedBlocks = <<>> /\ pc = "idle"

ExportIdle ==
    /\ documentModel = <<>> /\ pdfPages = <<>> /\ embedded = <<>>
    /\ pageIndex = 0 /\ blockCursor = 0 /\ raised = {} /\ exportState = "idle"

EditorIdle == editedBlock = <<>>

LinesIdle ==
    /\ textItems = <<>> /\ itemIndex = 0 /\ currentLineItems = <<>>
    /\ currentY = 0 /\ groupedLines = <<>>

OcrIdle == job = [status |-> "none", progress |-> 0] /\ documentStatus = "none" /\ ocrPc = "idle"

AuxIdle == LinesIdle /\ OcrIdle

DetectInit(kindSet) ==
    /\ IsPageOf(textLines, kindSet)
    /\ blocks = <<>>
    /\ processedLines = {}
    /\ cleanedBlocks = <<>>
    /\ pc = "start"

(* if (textLines.length === 0) return []; *)
ReturnEmpty ==
    /\ pc = "start" /\ Len(textLines) = 0
    /\ pc' = "done"
    /\ UNCHANGED <<textLines, blocks, processedLines, cleanedBlocks>>
    /\ UNCHANGED <<expVars, edVars, auxVars>>

(* Step 1: headings *)
DetectHeadings ==
    /\ pc = "start" /\ Len(textLines) > 0
    /\ LET headingBlocks == detectHeadings(textLines)
       IN  /\ blocks' = blocks \o headingBlocks
           /\ processedLines' = markAll(textLines, headingBlocks, processedLines)
    /\ pc' = "tables"
    /\ UNCHANGED <<textLines, cleanedBlocks>>
    /\ UNCHANGED <<expVars, edVars, auxVars>>

(* Step 2: tables.  hasMultipleColumns, called on every available line,  *)
(* sorts line.items in place: the caller's lines are written.             *)
DetectTables ==
    /\ pc = "tables"
    /\ LET tableBlocks == detectTables(textLines, processedLines)
       IN  /\ blocks' = blocks \o tableBlocks
           /\ processedLines' = markAll(textLines, tableBlocks, processedLines)
    /\ textLines' = sortItemsInPlace(textLines, processedLines)
    /\ pc' = "lists"
    /\ UNCHANGED cleanedBlocks
    /\ UNCHANGED <<expVars, edVars, auxVars>>

(* Step 3: lists *)
DetectLists ==
    /\ pc = "lists"
    /\ LET listBlocks == detectLists(textLines, processedLines)
       IN  /\ blocks' = blocks \o listBlocks
           /\ processedLines' = markAll(textLines, listBlocks, processedLines)
    /\ pc' = "paragraphs"
    /\ UNCHANGED <<textLines, cleanedBlocks>>
    /\ UNCHANGED <<expVars, edVars, auxVars>>

(* Step 4: paragraphs *)
GroupIntoParagraphs ==
    /\ pc = "paragraphs"
    /\ blocks' = blocks \o groupIntoParagraphs(textLines, processedLines)
    /\ pc' = "post"
    /\ UNCHANGED <<textLines, processedLines, cleanedBlocks>>
    /\ UNCHANGED <<expVars, edVars, auxVars>>

(* Step 5: post-process, sort, return *)
PostProcess ==
    /\ pc = "post"
    /\ cleanedBlocks' = sortBlocks(postProcessBlocks(blocks))
    /\ pc' = "done"
    /\ UNCHANGED <<textLines, blocks, processedLines>>
    /\ UNCHANGED <<expVars, edVars, auxVars>>

(* detectBlocks(textLines, pageNumber) as one call: the returned blocks *)
detectBlocks(lines) ==
    IF Len(lines) = 0 THEN <<>>
    ELSE LET headingBlocks == detectHeadings(lines)
             processed1 == markAll(lines, headingBlocks, {})
             tableBlocks == detectTables(lines, processed1)
             processed2 == markAll(lines, tableBlocks, processed1)
             lines2 == sortItemsInPlace(lines, processed1)
             listBlocks == detectLists(lines2, processed2)
             processed3 == markAll(lines2, listBlocks, processed2)
             paragraphs == groupIntoParagraphs(lines2, processed3)
         IN  sortBlocks(postProcessBlocks(
                 headingBlocks \o tableBlocks \o listBlocks \o paragraphs))

DetectNext ==
    \/ ReturnEmpty
    \/ DetectHeadings
    \/ DetectTables
    \/ DetectLists
    \/ GroupIntoParagraphs
    \/ PostProcess

Init == DetectInit(LineKinds) /\ ExportIdle /\ EditorIdle /\ AuxIdle
Next == DetectNext
Spec == Init /\ [][Next]_vars

(* the same function on the pages that exercise the heading rubric *)
HeadingInit == DetectInit(HeadingLineKinds) /\ ExportIdle /\ EditorIdle /\ AuxIdle
SpecHeadings == HeadingInit /\ [][Next]_vars

(* the same function on pages with lines too small to be kept as blocks *)
NoiseInit == DetectInit(NoiseLineKinds) /\ ExportIdle /\ EditorIdle /\ AuxIdle
SpecNoise == NoiseInit /\ [][Next]_vars

(* the same function on pages of list items of every marker *)
ListInit == DetectInit(ListLineKinds) /\ ExportIdle /\ EditorIdle /\ AuxIdle
SpecLists == ListInit /\ [][Next]_vars

(* the same function on pages of table rows, one with a run half way       *)
(* between two columns                                                     *)
TableInit == DetectInit(TableLineKinds) /\ ExportIdle /\ EditorIdle /\ AuxIdle
SpecTables == TableInit /\ [][Next]_vars

----------------------------------------------------------------------------
(* PdfLibExporter *)

(* String.prototype.substring(a, b): both ends clamped to 0..length and    *)
(* swapped when a > b (positions are 0-based as in the source)             *)
substring(s, a, b) ==
    LET ca == Max({0, Min({a, Len(s)})})
        cb == Max({0, Min({b, Len(s)})})
    IN  SubSeq(s, Min({ca, cb}) + 1, Max({ca, cb}))

(* text.split(/\s+/): the pieces between maximal whitespace runs; a        *)
(* leading or trailing run leaves an empty piece                           *)
RECURSIVE splitFrom(_, _, _)
splitFrom(s, p, cur) ==
    IF p > Len(s) THEN <<cur>>
    ELSE IF IsSpace(s[p])
         THEN <<cur>> \o splitFrom(s, SkipWhile(s, p, SpaceCh), <<>>)
         ELSE splitFrom(s, p + 1, Append(cur, s[p]))

splitOnWhitespace(s) == splitFrom(s, 1, <<>>)

(* `${index + 1}.` for the item numbers of the model's lists *)
numberToString(n) ==
    IF n < 10 THEN <<DigitSeq[n + 1]>>
    ELSE <<DigitSeq[(n \div 10) + 1], DigitSeq[(n % 10) + 1]>>

getBlockTextContent(block) ==
    CASE block.type = "list" ->
           LET listContent == block.content
               itemText(index) ==
                   (IF listContent.type = "numbered"
                    THEN numberToString(index) \o <<".">>
                    ELSE <<"BULLET">>)
                   \o <<" ">> \o listContent.items[index].content
           IN  JoinWith([i \in 1..Len(listContent.items) |-> itemText(i)], <<"\n">>)
      [] block.type = "table" ->
           LET tableContent == block.content
               rowText(r) ==
                   JoinWith([c \in 1..Len(tableContent.rows[r].cells) |->
                                tableContent.rows[r].cells[c].content],
                            <<" ", "|", " ">>)
           IN  JoinWith([r \in 1..Len(tableContent.rows) |-> rowText(r)], <<"\n">>)
      [] OTHER ->
           IF block.content.kind = "string" THEN block.content.text ELSE <<>>

(* the for..of loop of wrapText; maxCharsPerLine is a whole number *)
RECURSIVE wrapWords(_, _, _, _, _)
wrapWords(words, k, lines, currentLine, maxChars) ==
    IF k > Len(words)
    THEN IF trim(currentLine) # <<>> THEN Append(lines, trim(currentLine)) ELSE lines
    ELSE
        LET word == words[k]
            testLine == currentLine \o (IF currentLine # <<>> THEN <<" ">> ELSE <<>>) \o word
        IN  IF Len(testLine) <= maxChars \/ currentLine = <<>>
            THEN wrapWords(words, k + 1, lines, testLine, maxChars)
            ELSE
                LET pushed == IF currentLine # <<>>
                              THEN Append(lines, trim(currentLine)) ELSE lines
                IN  IF Len(word) > maxChars /\ Len(word) > maxChars * 2
                    THEN wrapWords(words, k + 1,
                                   Append(pushed,
                                          substring(word, 0, maxChars - 1) \o <<"-">>),
                                   substring(word, maxChars - 1, Len(word)),
                                   maxChars)
                    ELSE wrapWords(words, k + 1, pushed, word, maxChars)

(* font sizes are kept in tenths of a point (fontSize10 = 10 * fontSize):  *)
(* maxCharsPerLine = floor(maxWidth / (fontSize * 0.55))                   *)
maxCharsPerLine(maxWidth, fontSize10) == (maxWidth * 1000) \div (fontSize10 * 55)

wrapText(text, maxWidth, fontSize10) ==
    LET lines == wrapWords(splitOnWhitespace(text), 1, <<>>, <<>>,
                           maxCharsPerLine(maxWidth, fontSize10))
    IN  IF Len(lines) > 0 THEN lines ELSE <<text>>

(* text.length * fontSize * 0.6 <= blockWidth *)
wrapTextIntelligently(text, blockWidth, fontSize10) ==
    IF Len(text) * fontSize10 * 6 <= blockWidth * 100
    THEN <<text>>
    ELSE wrapText(text, blockWidth, fontSize10)

(* the StandardFonts member getFont asks the document to embed first *)
selectedFont(block) ==
    LET originalFontFamily == toLowerCase(block.style.fontFamily)
        fontWeight == block.style.fontWeight
        fontStyle == block.style.fontStyle
    IN  IF \/ includes(originalFontFamily, <<"c","o","u","r","i","e","r">>)
           \/ includes(originalFontFamily, <<"m","o","n","o">>)
           \/ block.type = "code"
        THEN IF fontWeight = "bold" THEN "CourierBold" ELSE "Courier"
        ELSE IF \/ includes(originalFontFamily, <<"t","i","m","e","s">>)
                \/ includes(originalFontFamily, <<"s","e","r","i","f">>)
        THEN IF fontWeight = "bold" /\ fontStyle = "italic" THEN "TimesRomanBoldItalic"
             ELSE IF fontWeight = "bold" THEN "TimesRomanBold"
             ELSE IF fontStyle = "italic" THEN "TimesRomanItalic"
             ELSE "TimesRoman"
        ELSE IF fontWeight = "bold" /\ fontStyle = "italic" THEN "HelveticaBoldOblique"
             ELSE IF fontWeight = "bold" THEN "HelveticaBold"
             ELSE IF fontStyle = "italic" THEN "HelveticaOblique"
             ELSE "Helvetica"

(* getFont: embedFont of the selected font; when that call throws, the     *)
(* catch embeds Helvetica, and a throw of that call leaves getFont.        *)
(* embedFont belongs to pdf-lib: which of its calls throw is the           *)
(* environment's choice, given as outcome.                                 *)
getFont(block, outcome) ==
    LET call(name, ok) == [font |-> name, block |-> block.id, ok |-> ok]
    IN  CASE outcome = "fallback" ->
               [calls |-> <<call(selectedFont(block), FALSE), call("Helvetica", TRUE)>>,
                font |-> "Helvetica", threw |-> FALSE]
          [] outcome = "embedThrows" ->
               [calls |-> <<call(selectedFont(block), FALSE), call("Helvetica", FALSE)>>,
                font |-> "none", threw |-> TRUE]
          [] OTHER ->
               [calls |-> <<call(selectedFont(block), TRUE)>>,
                font |-> selectedFont(block), threw |-> FALSE]

(* Math.max(8, Math.min(height * 0.6, 14)), for headings                   *)
(* Math.max(10, Math.min(height * 0.7, 18)); in tenths of a point          *)
calculateFontSize10(block) ==
    IF block.type = "heading"
    THEN Max({100, Min({block.position.height * 7, 180})})
    ELSE Max({80, Min({block.position.height * 6, 140})})

(* if (!content.trim()) return; *)
isEmptyContentStrict(content) == content = <<>>
isEmptyContent(content) == trim(content) = <<>>

(* Step 1: the white rectangle that covers the original text *)
coverRectangleOmitted(block, pdfY) == <<>>
coverRectangle(block, pdfY) ==
    <<[op |-> "rect", block |-> block.id,
       x |-> Max({0, block.position.x - 2}),
       y |-> Max({0, pdfY - 2}),
       width |-> block.position.width + 4,
       height |-> block.position.height + 4,
       color |-> "white"]>>

(* Step 6: the drawText loop.  textY = pdfY + height / 2 - fontSize / 3    *)
(* - i * fontSize * 1.2 is kept as 300 * textY; the line is drawn before   *)
(* the test textY < pdfY ends the loop.                                    *)
RECURSIVE drawTextLines(_, _, _, _, _, _)
drawTextLines(block, lines, i, pdfY, fontSize10, font) ==
    IF i >= Len(lines) THEN <<>>
    ELSE
        LET textY300 == 300 * pdfY + 150 * block.position.height
                        - 10 * fontSize10 - 36 * i * fontSize10
            drawn == [op |-> "text", block |-> block.id, text |-> lines[i + 1],
                      x |-> block.position.x + 5, y300 |-> textY300,
                      size10 |-> fontSize10, font |-> font]
        IN  IF textY300 < 300 * pdfY
            THEN <<drawn>>
            ELSE <<drawn>> \o drawTextLines(block, lines, i + 1, pdfY, fontSize10, font)

(* the calls that make applyBlockEdit throw; drawText belongs to pdf-lib   *)
(* and throws, for one, on a character its font cannot encode              *)
Outcomes == {"ok", "fallback", "embedThrows", "drawTextThrows"}

(* applyBlockEdit(pdfPage, block, pageHeight): the operations drawn on the *)
(* page, the embedFont calls, and whether the function threw               *)
applyBlockEdit(block, pageHeight, outcome) ==
    LET content == IF block.content.kind = "string"
                   THEN block.content.text
                   ELSE getBlockTextContent(block)
        pdfY == pageHeight - block.position.y - block.position.height
        cover == coverRectangle(block, pdfY)
        font == getFont(block, outcome)
        fontSize10 == calculateFontSize10(block)
        lines == wrapTextIntelligently(content, block.position.width, fontSize10)
    IN  IF isEmptyContent(content)
        THEN [ops |-> <<>>, calls |-> <<>>, threw |-> FALSE]
        ELSE IF font.threw
        THEN [ops |-> cover, calls |-> font.calls, threw |-> TRUE]
        ELSE IF outcome = "drawTextThrows"
        THEN [ops |-> cover, calls |-> font.calls, threw |-> TRUE]
        ELSE [ops |-> cover \o drawTextLines(block, lines, 0, pdfY, fontSize10, font.font),
              calls |-> font.calls, threw |-> FALSE]

(* pageModel.blocks.filter((block) => block.metadata.isEdited) *)
editedBlocksUnfiltered(pageModel) == pageModel.blocks
editedBlocks(pageModel) == SelectSeq(pageModel.blocks, LAMBDA block : block.metadata.isEdited)

(* ---- the documents given to the exporter ---- *)

HelloWorld == <<"H","e","l","l","o"," ","w","o","r","l","d">>
QuickBrownFox == <<"T","h","e"," ","q","u","i","c","k"," ","b","r","o","w","n"," ","f","o","x">>

EditedBlock(id, type, content, x, y, width, height, isEdited) ==
    [id |-> id, type |-> type, content |-> content,
     position |-> [x |-> x, y |-> y, width |-> width, height |-> height],
     style |-> getDefaultStyle(type),
     metadata |-> [confidence |-> 100, isEdited |-> isEdited]]

ListContent(items) ==
    [kind |-> "list",
     items |-> [i \in 1..Len(items) |-> [content |-> items[i], level |-> 1]],
     type |-> "numbered", isOrdered |-> TRUE]

TableContent(rows) ==
    [kind |-> "table",
     rows |-> [r \in 1..Len(rows) |->
                 [cells |-> [c \in 1..Len(rows[r]) |->
                               [content |-> rows[r][c], colspan |-> 1, rowspan |-> 1]]]],
     columnCount |-> IF rows = <<>> THEN 0 ELSE Len(rows[1]), hasHeader |-> FALSE]

(* a block whose style the parser or the editor has set *)
StyledBlock(id, type, fontFamily, fontWeight, fontStyle) ==
    [EditedBlock(id, type, StringContent(HelloWorld), 50, 100, 100, 20, TRUE)
        EXCEPT !.style.fontFamily = fontFamily,
               !.style.fontWeight = fontWeight,
               !.style.fontStyle = fontStyle]

HelveticaFamily == <<"H","e","l","v","e","t","i","c","a">>
CourierNewFamily == <<"C","o","u","r","i","e","r"," ","N","e","w">>
TimesNewRomanFamily == <<"T","i","m","e","s"," ","N","e","w"," ","R","o","m","a","n">>

ExportBlockKinds ==
    {"edited", "unedited", "empty", "blank", "wrapped", "list", "emptyList", "emptyTable"}

(* tall narrow blocks (5 characters per line at font size 14) whose every   *)
(* wrapped line is drawn, with words below, between and above twice that   *)
WrapBlockKinds == {"short", "fourWords", "longFirst", "longSecond", "overflow"}

Hi == <<"H","i">>
Extraordinary == <<"e","x","t","r","a","o","r","d","i","n","a","r","y">>
AnExtraordinary == <<"A","n"," ">> \o Extraordinary
AnExample == <<"A","n"," ","e","x","a","m","p","l","e">>

(* blocks at the page corner, and blocks of every font family and face *)
StyleBlockKinds ==
    {"corner", "default", "helveticaBold", "helveticaItalic", "courierItalic",
     "courierBoldItalic", "timesBoldItalic", "code"}

ExportBlock(kind, id) ==
    CASE kind = "edited" ->
           EditedBlock(id, "paragraph", StringContent(HelloWorld), 50, 100, 100, 20, TRUE)
      [] kind = "unedited" ->
           EditedBlock(id, "paragraph", StringContent(HelloWorld), 50, 200, 100, 20, FALSE)
      [] kind = "empty" ->
           EditedBlock(id, "paragraph", StringContent(<<>>), 50, 300, 100, 20, TRUE)
      [] kind = "blank" ->
           EditedBlock(id, "paragraph", StringContent(<<" ", "\n", " ">>), 50, 400, 100, 20, TRUE)
      [] kind = "short" ->
           EditedBlock(id, "paragraph", StringContent(Hi), 50, 100, 40, 200, TRUE)
      [] kind = "fourWords" ->
           EditedBlock(id, "paragraph", StringContent(QuickBrownFox), 50, 100, 40, 200, TRUE)
      [] kind = "longFirst" ->
           EditedBlock(id, "paragraph", StringContent(Extraordinary), 50, 100, 40, 200, TRUE)
      [] kind = "longSecond" ->
           EditedBlock(id, "paragraph", StringContent(AnExtraordinary), 50, 100, 40, 200, TRUE)
      [] kind = "overflow" ->
           EditedBlock(id, "paragraph", StringContent(AnExample), 50, 100, 40, 200, TRUE)
      [] kind = "wrapped" ->
           EditedBlock(id, "heading", StringContent(QuickBrownFox), 50, 500, 60, 20, TRUE)
      [] kind = "list" ->
           EditedBlock(id, "list", ListContent(<<<<"A","b">>, <<"C","d">>>>), 50, 600, 100, 30, TRUE)
      [] kind = "emptyList" ->
           EditedBlock(id, "list", ListContent(<<>>), 50, 650, 100, 30, TRUE)
      [] kind = "parsedList" ->
           EditedBlock(id, "list", ListContent(<<<<"A","b">>, <<"C","d">>>>), 50, 600, 100, 30, FALSE)
      [] kind = "parsedTable" ->
           EditedBlock(id, "table", TableContent(<<<<<<"A">>, <<"b">>>>>>), 50, 700, 100, 30, FALSE)
      [] kind = "emptyTable" ->
           EditedBlock(id, "table", TableContent(<<>>), 50, 700, 100, 30, TRUE)
      [] kind = "corner" ->
           EditedBlock(id, "paragraph", StringContent(HelloWorld), 1, 772, 100, 20, TRUE)
      [] kind = "default" ->
           EditedBlock(id, "paragraph", StringContent(HelloWorld), 50, 100, 100, 20, TRUE)
      [] kind = "helveticaBold" ->
           StyledBlock(id, "paragraph", HelveticaFamily, "bold", "normal")
      [] kind = "helveticaItalic" ->
           StyledBlock(id, "paragraph", HelveticaFamily, "normal", "italic")
      [] kind = "courierItalic" ->
           StyledBlock(id, "paragraph", CourierNewFamily, "normal", "italic")
      [] kind = "courierBoldItalic" ->
           StyledBlock(id, "paragraph", CourierNewFamily, "bold", "italic")
      [] kind = "timesBoldItalic" ->
           StyledBlock(id, "paragraph", TimesNewRomanFamily, "bold", "italic")
      [] kind = "code" ->
           EditedBlock(id, "code", StringContent(HelloWorld), 50, 100, 100, 20, TRUE)

(* PDFPage.getSize() of the original PDF, whose pages the model was parsed from *)
PdfPageSize == [width |-> 612, height |-> 792]

(* a document of NumPages pages holding n blocks, page by page *)
DocumentOf(kinds, pageOf) ==
    LET all == [k \in 1..Len(kinds) |-> ExportBlock(kinds[k], k)]
    IN  [p \in 1..NumPages |->
            [pageNumber |-> p,
             dimensions |-> PdfPageSize,
             blocks |-> SelectSeq(all, LAMBDA b : pageOf[b.id] = p)]]

(* ---- exportModifiedPdf(originalPdfBytes, documentModel) ---- *)

ExportInitOf(kindSet) ==
    /\ \E n \in 0..MaxBlocks :
         \E kinds \in [1..n -> kindSet], pageOf \in [1..n -> 1..NumPages] :
            /\ \A k \in 1..(n - 1) : pageOf[k] <= pageOf[k + 1]
            /\ documentModel = DocumentOf(kinds, pageOf)
    /\ pdfPages = <<>> /\ embedded = <<>>
    /\ pageIndex = 0 /\ blockCursor = 0 /\ raised = {} /\ exportState = "idle"

ExportInit == ExportInitOf(ExportBlockKinds)

(* the pages the loop visits: min(documentModel.pages.length, pages.length) *)
PageLimit == Min({Len(documentModel), Len(pdfPages)})

(* PDFDocument.load(originalPdfBytes); pdfDoc.getPages() *)
LoadPdf ==
    /\ exportState = "idle"
    /\ pdfPages' = [p \in 1..NumPages |-> <<>>]
    /\ exportState' = "loaded"
    /\ UNCHANGED <<documentModel, embedded, pageIndex, blockCursor, raised>>
    /\ UNCHANGED <<detVars, edVars, auxVars>>

(* PDFDocument.load throws: the catch rethrows "Failed to modify PDF" *)
LoadPdfThrows ==
    /\ exportState = "idle"
    /\ exportState' = "failed"
    /\ UNCHANGED <<documentModel, pdfPages, embedded, pageIndex, blockCursor, raised>>
    /\ UNCHANGED <<detVars, edVars, auxVars>>

(* await this.applyBlockEdit(pdfPage, block, pageHeight) returns *)
ApplyBlockEdit ==
    /\ exportState = "loaded" /\ pageIndex < PageLimit
    /\ LET edited == editedBlocks(documentModel[pageIndex + 1])
       IN  /\ blockCursor < Len(edited)
           /\ \E outcome \in Outcomes :
                LET r == applyBlockEdit(edited[blockCursor + 1], PdfPageSize.height, outcome)
                IN  /\ ~r.threw
                    /\ pdfPages' = [pdfPages EXCEPT ![pageIndex + 1] = @ \o r.ops]
                    /\ embedded' = embedded \o r.calls
    /\ blockCursor' = blockCursor + 1
    /\ UNCHANGED <<documentModel, pageIndex, raised, exportState>>
    /\ UNCHANGED <<detVars, edVars, auxVars>>

(* applyBlockEdit throws: its catch logs and rethrows, and the catch of    *)
(* exportModifiedPdf throws "Failed to modify PDF"                         *)
ApplyBlockEditThrows ==
    /\ exportState = "loaded" /\ pageIndex < PageLimit
    /\ LET edited == editedBlocks(documentModel[pageIndex + 1])
       IN  /\ blockCursor < Len(edited)
           /\ \E outcome \in Outcomes :
                LET r == applyBlockEdit(edited[blockCursor + 1], PdfPageSize.height, outcome)
                IN  /\ r.threw
                    /\ pdfPages' = [pdfPages EXCEPT ![pageIndex + 1] = @ \o r.ops]
                    /\ embedded' = embedded \o r.calls
                    /\ raised' = raised \cup {edited[blockCursor + 1].id}
    /\ exportState' = "failed"
    /\ UNCHANGED <<documentModel, pageIndex, blockCursor>>
    /\ UNCHANGED <<detVars, edVars, auxVars>>

(* the inner loop is over: pageIndex++ *)
NextPage ==
    /\ exportState = "loaded" /\ pageIndex < PageLimit
    /\ blockCursor = Len(editedBlocks(documentModel[pageIndex + 1]))
    /\ pageIndex' = pageIndex + 1
    /\ blockCursor' = 0
    /\ UNCHANGED <<documentModel, pdfPages, embedded, raised, exportState>>
    /\ UNCHANGED <<detVars, edVars, auxVars>>

(* pdfDoc.save(); return new Blob(...) *)
SavePdf ==
    /\ exportState = "loaded" /\ pageIndex >= PageLimit
    /\ exportState' = "saved"
    /\ UNCHANGED <<documentModel, pdfPages, embedded, pageIndex, blockCursor, raised>>
    /\ UNCHANGED <<detVars, edVars, auxVars>>

ExportNext ==
    \/ LoadPdf
    \/ LoadPdfThrows
    \/ ApplyBlockEdit
    \/ ApplyBlockEditThrows
    \/ NextPage
    \/ SavePdf

ExportSpecInit == DetectIdle /\ EditorIdle /\ AuxIdle /\ ExportInit
SpecExport == ExportSpecInit /\ [][ExportNext]_vars

(* the same function on documents whose blocks differ in place and style *)
ExportStylesInit == DetectIdle /\ EditorIdle /\ AuxIdle /\ ExportInitOf(StyleBlockKinds)
SpecExportStyles == ExportStylesInit /\ [][ExportNext]_vars

ExportWrapInit == DetectIdle /\ EditorIdle /\ AuxIdle /\ ExportInitOf(WrapBlockKinds)
SpecExportWrap == ExportWrapInit /\ [][ExportNext]_vars

----------------------------------------------------------------------------
(* The editor: PdfEditorV2 holds the document model, BlockEditor edits a    *)
(* copy of one block and hands it back on save                              *)

(* entries of the editor's type menu: one of the four string types, list   *)
(* and table (heading, quote and code keep their content as paragraph does) *)
BlockTypeChoices == {"paragraph", "list", "table"}
StringBlockTypes == {"paragraph", "heading", "quote", "code"}

(* the blocks a parsed document holds *)
ParsedBlockKinds == {"unedited", "parsedList", "parsedTable"}

(* DocumentModelUtils.generateId(): an id no block of the document has *)
BlockIds ==
    UNION {{documentModel[p].blocks[k].id : k \in 1..Len(documentModel[p].blocks)} :
              p \in 1..Len(documentModel)}
generateId == CHOOSE id \in 1..(Cardinality(BlockIds) + 1) : id \notin BlockIds

TotalBlocks == Cardinality(BlockIds)

NewTextBoxText ==
    <<"N","e","w"," ","t","e","x","t"," ","b","o","x"," ","-"," ",
      "d","o","u","b","l","e"," ","c","l","i","c","k"," ","t","o"," ","e","d","i","t">>

(* DocumentModelUtils.updateBlockContent *)
updateBlockContentKeepingFlag(block, newContent) ==
    [block EXCEPT !.content = newContent]
updateBlockContent(block, newContent) ==
    [block EXCEPT !.content = newContent, !.metadata.isEdited = TRUE]

(* pages.map(page => ({...page, blocks: page.blocks.map(b => b.id === id ? updated : b)})) *)
replaceBlock(pages, updatedBlock) ==
    [p \in 1..Len(pages) |->
        [pages[p] EXCEPT !.blocks =
            [k \in 1..Len(pages[p].blocks) |->
                IF pages[p].blocks[k].id = updatedBlock.id
                THEN updatedBlock ELSE pages[p].blocks[k]]]]

(* pages.map(page => ({...page, blocks: page.blocks.filter(b => b.id !== blockId)})) *)
removeBlockDroppingEmptyPages(pages, blockId) ==
    SelectSeq([p \in 1..Len(pages) |->
                  [pages[p] EXCEPT !.blocks =
                      SelectSeq(pages[p].blocks, LAMBDA b : b.id # blockId)]],
              LAMBDA page : page.blocks # <<>>)
removeBlock(pages, blockId) ==
    [p \in 1..Len(pages) |->
        [pages[p] EXCEPT !.blocks = SelectSeq(pages[p].blocks, LAMBDA b : b.id # blockId)]]

(* handleBlockSelect and handleBlockEdit: the editor opens on a copy of the block *)
HandleBlockEdit ==
    /\ editedBlock = <<>>
    /\ \E p \in 1..Len(documentModel) : \E k \in 1..Len(documentModel[p].blocks) :
          editedBlock' = <<documentModel[p].blocks[k]>>
    /\ UNCHANGED <<detVars, expVars, auxVars>>

(* BlockEditor.updateBlockType: type and style change, content is kept *)
UpdateBlockType ==
    /\ editedBlock # <<>>
    /\ \E newType \in BlockTypeChoices :
          editedBlock' = <<[editedBlock[1] EXCEPT
                               !.type = newType,
                               !.style = getDefaultStyle(newType) @@ editedBlock[1].style]>>
    /\ UNCHANGED <<detVars, expVars, auxVars>>

(* BlockContentEditor, the textarea of paragraph, heading, quote and code *)
UpdateTextContent ==
    /\ editedBlock # <<>>
    /\ editedBlock[1].type \in StringBlockTypes
    /\ \E value \in {Hi} :
          editedBlock' = <<[editedBlock[1] EXCEPT !.content = StringContent(value)]>>
    /\ UNCHANGED <<detVars, expVars, auxVars>>

(* ListContentEditor.removeItem; the editor only renders items of a list   *)
(* structure                                                                *)
RemoveListItem ==
    /\ editedBlock # <<>>
    /\ editedBlock[1].type = "list"
    /\ editedBlock[1].content.kind = "list"
    /\ \E index \in 1..Len(editedBlock[1].content.items) :
          editedBlock' =
             <<[editedBlock[1] EXCEPT !.content.items =
                   [i \in 1..(Len(@) - 1) |-> IF i < index THEN @[i] ELSE @[i + 1]]]>>
    /\ UNCHANGED <<detVars, expVars, auxVars>>

(* TableContentEditor: onChange(JSON.parse(e.target.value)), whatever value *)
(* the typed JSON denotes                                                   *)
UpdateTableJson ==
    /\ editedBlock # <<>>
    /\ editedBlock[1].type = "table"
    /\ \E value \in {TableContent(<<>>), StringContent(Hi)} :
          editedBlock' = <<[editedBlock[1] EXCEPT !.content = value]>>
    /\ UNCHANGED <<detVars, expVars, auxVars>>

(* BlockEditor.handleSave, then PdfEditorV2.handleBlockSave *)
HandleBlockSave ==
    /\ editedBlock # <<>>
    /\ LET finalBlock == updateBlockContent(editedBlock[1], editedBlock[1].content)
       IN  documentModel' = replaceBlock(documentModel, finalBlock)
    /\ editedBlock' = <<>>
    /\ UNCHANGED <<detVars, auxVars, pdfPages, embedded, pageIndex, blockCursor, raised, exportState>>

(* BlockEditor.handleCancel *)
HandleCancel ==
    /\ editedBlock # <<>>
    /\ editedBlock' = <<>>
    /\ UNCHANGED <<detVars, expVars, auxVars>>

(* PdfEditorV2.handleBlockDelete *)
HandleBlockDelete ==
    /\ \E p \in 1..Len(documentModel) : \E k \in 1..Len(documentModel[p].blocks) :
          documentModel' = removeBlock(documentModel, documentModel[p].blocks[k].id)
    /\ editedBlock' = <<>>
    /\ UNCHANGED <<detVars, auxVars, pdfPages, embedded, pageIndex, blockCursor, raised, exportState>>

(* PdfEditorV2.handleAddTextBox(x, y, pageNumber) *)
HandleAddTextBox ==
    /\ editedBlock = <<>>
    /\ TotalBlocks < MaxBlocks
    /\ \E x \in {100}, y \in {400}, pageNumber \in 1..Len(documentModel) :
          LET newBlock ==
                 [id |-> generateId,
                  type |-> "paragraph",
                  content |-> StringContent(NewTextBoxText),
                  position |-> [x |-> x, y |-> y, width |-> 200, height |-> 30],
                  style |-> [getDefaultStyle("paragraph") EXCEPT
                                !.fontSize = 12, !.fontFamily = Arial,
                                !.fontWeight = "normal", !.fontStyle = "normal",
                                !.color = "#000000"],
                  metadata |-> [confidence |-> 100, isEdited |-> TRUE]]
          IN  documentModel' =
                 [p \in 1..Len(documentModel) |->
                     IF documentModel[p].pageNumber = pageNumber
                     THEN [documentModel[p] EXCEPT !.blocks = Append(@, newBlock)]
                     ELSE documentModel[p]]
    /\ UNCHANGED <<detVars, auxVars, pdfPages, embedded, pageIndex, blockCursor, raised, exportState>>
    /\ UNCHANGED edVars

EditorNext ==
    \/ HandleBlockEdit
    \/ UpdateBlockType
    \/ UpdateTextContent
    \/ RemoveListItem
    \/ UpdateTableJson
    \/ HandleBlockSave
    \/ HandleCancel
    \/ HandleBlockDelete
    \/ HandleAddTextBox

EditorInit == DetectIdle /\ ExportInitOf(ParsedBlockKinds) /\ EditorIdle /\ AuxIdle
SpecEditor == EditorInit /\ [][EditorNext]_vars

(* ---- moving, resizing and restyling blocks ---- *)

(* the parsed pages used when blocks are moved: plain paragraphs *)
MovedBlockKinds == {"unedited"}

(* DraggableBlock, on the end of a drag: the block at its new place, marked *)
(* as edited ("position changes set isEdited=true")                         *)
dragEnd(block, x, y) ==
    [block EXCEPT !.position.x = x, !.position.y = y, !.metadata.isEdited = TRUE]

(* BlockEditor.updateStyle *)
UpdateStyle ==
    /\ editedBlock # <<>>
    /\ \E styleUpdates \in {[fontWeight |-> "bold"]} :
          editedBlock' = <<[editedBlock[1] EXCEPT !.style = styleUpdates @@ @]>>
    /\ UNCHANGED <<detVars, expVars, auxVars>>

(* PdfEditorV2.handleBlockUpdate(updatedBlock), called by the overlay when  *)
(* a drag ends                                                              *)
HandleBlockUpdate ==
    /\ \E p \in 1..Len(documentModel) : \E k \in 1..Len(documentModel[p].blocks) :
          \E x \in {60}, y \in {220} :
             documentModel' =
                replaceBlock(documentModel, dragEnd(documentModel[p].blocks[k], x, y))
    /\ UNCHANGED <<detVars, auxVars, pdfPages, embedded, pageIndex, blockCursor, raised, exportState>>
    /\ UNCHANGED edVars

(* DocumentModelUtils.validateDocumentModel, of the pages *)
validateDocumentModel(pages) ==
    LET errors == {index \in 0..(Len(pages) - 1) :
                      \/ pages[index + 1].pageNumber = 0
                      \/ pages[index + 1].pageNumber # index + 1}
    IN  [isValid |-> errors = {}, errors |-> errors]

EditorMoveNext ==
    \/ HandleBlockEdit
    \/ UpdateTextContent
    \/ UpdateStyle
    \/ HandleBlockSave
    \/ HandleCancel
    \/ HandleBlockDelete
    \/ HandleBlockUpdate
    \/ HandleAddTextBox

EditorMoveInit == DetectIdle /\ ExportInitOf(MovedBlockKinds) /\ EditorIdle /\ AuxIdle
SpecEditorMoves == EditorMoveInit /\ [][EditorMoveNext]_vars

----------------------------------------------------------------------------
(* The Line Builder: groupTextIntoLines over the glyph runs of a page      *)

(* a run is given by its text, its font size, the gap that separates it    *)
(* from the run before it and its distance below that run                  *)
RunTexts == {<<"a","b">>, <<"c",",">>, <<"(","d">>}
RunSpecs == [text : RunTexts, fontSize : {10, 20}, gap : {3, 5, 8}, dy : {0, 20}]

RECURSIVE RunX(_, _)
RunX(specs, i) ==
    IF i = 1 THEN 50
    ELSE RunX(specs, i - 1) + 2 * specs[i - 1].fontSize + specs[i].gap

RECURSIVE RunY(_, _)
RunY(specs, i) == IF i = 1 THEN 100 ELSE RunY(specs, i - 1) + specs[i].dy

RunsOfSpecs(specs) ==
    [i \in 1..Len(specs) |->
        ParsedTextItem(specs[i].text, RunX(specs, i), RunY(specs, i),
                       2 * specs[i].fontSize, specs[i].fontSize, "normal", Arial)]

(* const tolerance = 5 *)
tolerance == 5

(* groupTextIntoLines, up to the for loop: currentY = textItems[0].y *)
GroupInit ==
    /\ \E n \in 0..MaxRuns : \E specs \in [1..n -> RunSpecs] :
          /\ textItems = RunsOfSpecs(specs)
          /\ currentY = IF n = 0 THEN 0 ELSE RunsOfSpecs(specs)[1].y
          /\ itemIndex = IF n = 0 THEN 1 ELSE 0
    /\ currentLineItems = <<>>
    /\ groupedLines = <<>>

(* the loop body, an item within the tolerance of currentY *)
GroupSameLine ==
    /\ itemIndex < Len(textItems)
    /\ LET item == textItems[itemIndex + 1]
       IN  /\ Abs(item.y - currentY) <= tolerance
           /\ currentLineItems' = Append(currentLineItems, item)
    /\ itemIndex' = itemIndex + 1
    /\ UNCHANGED <<textItems, currentY, groupedLines>>
    /\ UNCHANGED <<detVars, expVars, edVars, ocrVars>>

(* the loop body, an item farther away: the current line is closed *)
GroupNewLine ==
    /\ itemIndex < Len(textItems)
    /\ LET item == textItems[itemIndex + 1]
       IN  /\ Abs(item.y - currentY) > tolerance
           /\ groupedLines' = IF Len(currentLineItems) > 0
                              THEN Append(groupedLines, createTextLine(currentLineItems))
                              ELSE groupedLines
           /\ currentLineItems' = <<item>>
           /\ currentY' = item.y
    /\ itemIndex' = itemIndex + 1
    /\ UNCHANGED textItems
    /\ UNCHANGED <<detVars, expVars, edVars, ocrVars>>

(* after the loop: the last line *)
GroupFinish ==
    /\ itemIndex = Len(textItems)
    /\ groupedLines' = IF Len(currentLineItems) > 0
                       THEN Append(groupedLines, createTextLine(currentLineItems))
                       ELSE groupedLines
    /\ itemIndex' = itemIndex + 1
    /\ UNCHANGED <<textItems, currentLineItems, currentY>>
    /\ UNCHANGED <<detVars, expVars, edVars, ocrVars>>

GroupDone == itemIndex > Len(textItems)

GroupNext == GroupSameLine \/ GroupNewLine \/ GroupFinish

LineBuilderInit == DetectIdle /\ ExportIdle /\ EditorIdle /\ OcrIdle /\ GroupInit
SpecLineBuilder == LineBuilderInit /\ [][GroupNext]_vars

----------------------------------------------------------------------------
(* PdfTextExtractor.groupTextIntoLines over the text items of pdf.js       *)

(* a text item: str, transform[4] (x), transform[5] (y, kept in tenths as   *)
(* y10) and transform[3] (the font size)                                    *)
TextItem(str, x, y10, size) == [str |-> str, x |-> x, y10 |-> y10, size |-> size]

ItemYs == {1000, 996, 960, 920, 800}
ItemXs == {50, 90}
TextItems == {TextItem(<<"a","b">>, x, y10, 12) : x \in ItemXs, y10 \in ItemYs}

(* Math.round of a value given in tenths *)
roundTenths(v10) == (v10 + 5) \div 10

(* textItems.sort((a, b) => b.transform[5] - a.transform[5]) *)
RECURSIVE sortItemsByYDescending(_)
sortItemsByYDescending(items) ==
    IF items = <<>> THEN <<>>
    ELSE LET rest == sortItemsByYDescending(SubSeq(items, 1, Len(items) - 1))
             last == items[Len(items)]
         IN  InsertAt(rest, Cardinality({i \in 1..Len(rest) : rest[i].y10 >= last.y10}), last)

(* processLine *)
processLine(items) ==
    LET sortedItems == sortItemsByX(items)
    IN  [text |-> JoinWith([i \in 1..Len(sortedItems) |-> sortedItems[i].str], <<" ">>),
         fontSize |-> Max({IF Abs(sortedItems[i].size) = 0 THEN 12 ELSE Abs(sortedItems[i].size) :
                              i \in 1..Len(sortedItems)}),
         y10 |-> sortedItems[1].y10,
         items |-> sortedItems]

(* before the call: itemIndex -1 marks the items as not yet sorted *)
ExtractInit ==
    /\ \E n \in 0..MaxItems : textItems \in [1..n -> TextItems]
    /\ itemIndex = -1
    /\ currentLineItems = <<>>
    /\ currentY = -1
    /\ groupedLines = <<>>

(* const sortedItems = textItems.sort(...); let currentY = -1 *)
ExtractSort ==
    /\ itemIndex = -1
    /\ textItems' = sortItemsByYDescending(textItems)
    /\ itemIndex' = 0
    /\ UNCHANGED <<currentLineItems, currentY, groupedLines>>
    /\ UNCHANGED <<detVars, expVars, edVars, ocrVars>>

(* the loop body: currentY === -1 || Math.abs(itemY - currentY) <= tolerance *)
ExtractSameLine ==
    /\ itemIndex >= 0 /\ itemIndex < Len(textItems)
    /\ LET item == textItems[itemIndex + 1]
           itemY == roundTenths(item.y10)
       IN  /\ currentY = -1 \/ Abs(itemY - currentY) <= tolerance
           /\ currentLineItems' = Append(currentLineItems, item)
           /\ currentY' = itemY
    /\ itemIndex' = itemIndex + 1
    /\ UNCHANGED <<textItems, groupedLines>>
    /\ UNCHANGED <<detVars, expVars, edVars, ocrVars>>

(* the loop body, else branch *)
ExtractNewLine ==
    /\ itemIndex >= 0 /\ itemIndex < Len(textItems)
    /\ LET item == textItems[itemIndex + 1]
           itemY == roundTenths(item.y10)
       IN  /\ ~(currentY = -1 \/ Abs(itemY - currentY) <= tolerance)
           /\ groupedLines' = IF Len(currentLineItems) > 0
                              THEN Append(groupedLines, processLine(currentLineItems))
                              ELSE groupedLines
           /\ currentLineItems' = <<item>>
           /\ currentY' = itemY
    /\ itemIndex' = itemIndex + 1
    /\ UNCHANGED textItems
    /\ UNCHANGED <<detVars, expVars, edVars, ocrVars>>

(* after the loop: the last line *)
ExtractFinish ==
    /\ itemIndex = Len(textItems)
    /\ groupedLines' = IF Len(currentLineItems) > 0
                       THEN Append(groupedLines, processLine(currentLineItems))
                       ELSE groupedLines
    /\ itemIndex' = itemIndex + 1
    /\ UNCHANGED <<textItems, currentLineItems, currentY>>
    /\ UNCHANGED <<detVars, expVars, edVars, ocrVars>>

ExtractNext == ExtractSort \/ ExtractSameLine \/ ExtractNewLine \/ ExtractFinish

TextExtractorInit == DetectIdle /\ ExportIdle /\ EditorIdle /\ OcrIdle /\ ExtractInit
SpecTextExtractor == TextExtractorInit /\ [][ExtractNext]_vars

----------------------------------------------------------------------------
(* The background OCR job: POST /api/pdf/parse and processOcrJob *)

(* An awaited supabase query resolves to { data, error }: the row is      *)
(* written, or an error is returned, which the code never looks at.  The  *)
(* download, the extraction and the upload are the steps that throw.      *)
Applied == BOOLEAN

(* .update({ status: 'processing', progress: 10 }) *)
markProcessing(row) == [row EXCEPT !.status = "processing", !.progress = 10]

(* .update({ progress }) *)
setProgress(row, progress) == [row EXCEPT !.progress = progress]

(* .update({ status: 'complete', progress: 100, result_json }) *)
markComplete(row) == [row EXCEPT !.status = "complete", !.progress = 100]

(* .update({ status: 'error', error_json }) *)
markFailedResettingProgress(row) == [row EXCEPT !.status = "error", !.progress = 0]
markFailed(row) == [row EXCEPT !.status = "error"]

OcrStep(from, to) ==
    /\ ocrPc = from
    /\ ocrPc' = to
    /\ UNCHANGED <<detVars, expVars, edVars, lineVars>>

(* POST: the document row and the job row are inserted with status        *)
(* 'pending', and processOcrJob is started without being awaited          *)
PostCreatesJob ==
    /\ OcrStep("idle", "start")
    /\ documentStatus' = "pending"
    /\ job' = [status |-> "pending", progress |-> 0]

(* POST: the insert of the job row returns an error: 500, no job *)
PostJobInsertFails ==
    /\ OcrStep("idle", "done")
    /\ documentStatus' = "pending"
    /\ UNCHANGED job

JobProcessing ==
    /\ OcrStep("start", "documentProcessing")
    /\ \E applied \in Applied : job' = IF applied THEN markProcessing(job) ELSE job
    /\ UNCHANGED documentStatus

DocumentProcessing ==
    /\ OcrStep("documentProcessing", "download")
    /\ \E applied \in Applied :
         documentStatus' = IF applied THEN "processing" ELSE documentStatus
    /\ UNCHANGED job

(* fetch(urlData.publicUrl); if (!response.ok) throw *)
Download ==
    /\ \E ok \in BOOLEAN : OcrStep("download", IF ok THEN "progress30" ELSE "catch")
    /\ UNCHANGED <<job, documentStatus>>

Progress30 ==
    /\ OcrStep("progress30", "extract")
    /\ \E applied \in Applied : job' = IF applied THEN setProgress(job, 30) ELSE job
    /\ UNCHANGED documentStatus

(* extractTextFromPDF(buffer, storagePath) *)
ExtractText ==
    /\ \E ok \in BOOLEAN : OcrStep("extract", IF ok THEN "progress80" ELSE "catch")
    /\ UNCHANGED <<job, documentStatus>>

Progress80 ==
    /\ OcrStep("progress80", "upload")
    /\ \E applied \in Applied : job' = IF applied THEN setProgress(job, 80) ELSE job
    /\ UNCHANGED documentStatus

(* storage.upload(...); if (uploadError) throw *)
UploadResult ==
    /\ \E ok \in BOOLEAN : OcrStep("upload", IF ok THEN "complete" ELSE "catch")
    /\ UNCHANGED <<job, documentStatus>>

JobComplete ==
    /\ OcrStep("complete", "documentComplete")
    /\ \E applied \in Applied : job' = IF applied THEN markComplete(job) ELSE job
    /\ UNCHANGED documentStatus

DocumentComplete ==
    /\ OcrStep("documentComplete", "done")
    /\ \E applied \in Applied :
         documentStatus' = IF applied THEN "complete" ELSE documentStatus
    /\ UNCHANGED job

(* catch (error): the job, then the document, are marked failed *)
JobFailed ==
    /\ OcrStep("catch", "documentError")
    /\ \E applied \in Applied : job' = IF applied THEN markFailed(job) ELSE job
    /\ UNCHANGED documentStatus

DocumentFailed ==
    /\ OcrStep("documentError", "done")
    /\ \E applied \in Applied :
         documentStatus' = IF applied THEN "error" ELSE documentStatus
    /\ UNCHANGED job

OcrNext ==
    \/ PostCreatesJob
    \/ PostJobInsertFails
    \/ JobProcessing
    \/ DocumentProcessing
    \/ Download
    \/ Progress30
    \/ ExtractText
    \/ Progress80
    \/ UploadResult
    \/ JobComplete
    \/ DocumentComplete
    \/ JobFailed
    \/ DocumentFailed

OcrInit == DetectIdle /\ ExportIdle /\ EditorIdle /\ AuxIdle
SpecOcr == OcrInit /\ [][OcrNext]_vars

----------------------------------------------------------------------------
(* Claims about detectBlocks *)

HeadingBlocks == {b \in 1..Len(blocks) : blocks[b].type = "heading"}
DetectorRank(type) ==
    CASE type = "heading" -> 1 [] type = "table" -> 2 [] type = "list" -> 3 [] OTHER -> 4

\* C1: no text line contributes content to more than one block, and the
\* blocks are produced in the order heading, table, list, paragraph: a line
\* used by an earlier detector is never used again by a later one.
C1_LineInAtMostOneBlock ==
    /\ \A i \in 1..Len(textLines) :
          Cardinality({b \in 1..Len(blocks) : i \in blocks[b].srcLines}) <= 1
    /\ \A a, b \in 1..Len(blocks) :
          a < b => DetectorRank(blocks[a].type) <= DetectorRank(blocks[b].type)
    /\ \A b \in 1..Len(blocks) :
          pc \in {"tables", "lists", "paragraphs"} /\ DetectorRank(blocks[b].type) < 4
             => blocks[b].srcLines \subseteq processedLines

\* witness of C1: a finished run in which a heading claimed its line and a
\* later detector (table or list) built a block from the remaining lines
C1_Witness ==
    /\ pc = "done"
    /\ HeadingBlocks # {}
    /\ \E b \in 1..Len(blocks) : blocks[b].type \in {"table", "list"}
    /\ Cardinality(processedLines) = Len(textLines)

(* the k-th smallest font size of the page, k = floor(0.75 n) counted from 0 *)
C6_P75 ==
    LET n == Len(textLines)
        sizes == {textLines[i].averageFontSize : i \in 1..n}
        below(v) == Cardinality({i \in 1..n : textLines[i].averageFontSize < v})
        upto(v) == Cardinality({i \in 1..n : textLines[i].averageFontSize <= v})
    IN  CHOOSE v \in sizes : below(v) <= (3 * n) \div 4 /\ (3 * n) \div 4 < upto(v)

C6_LargeFont(i) ==
    LET n == Len(textLines)
        sum == SumSeq([k \in 1..n |-> textLines[k].averageFontSize])
        size == textLines[i].averageFontSize
    IN  \/ 10 * n * size >= 12 * sum /\ size >= C6_P75
        \/ n * size >= sum + 2 * n

C6_Rubric(i) ==
    LET line == textLines[i]
        text == trim(line.text)
        pts(cond, w) == IF cond THEN w ELSE 0
    IN  pts(C6_LargeFont(i), 4)
        + pts(Len(text) <= 100, 2)
        + pts(\E k \in 1..Len(line.items) :
                 \/ line.items[k].fontWeight = "bold"
                 \/ includes(toLowerCase(line.items[k].fontFamily), <<"b","o","l","d">>), 3)
        + pts(matchesHeadingNumbering(text), 2)
        + pts(Len(text) > 3 /\ \A k \in 1..Len(text) : text[k] \notin LowerCh, 2)
        + pts(matchesCapitalizedStart(text), 1)
        + pts(matchesHeadingWord(text), 3)

C6_IsHeadingLine(i) == \E b \in HeadingBlocks : blocks[b].srcLines = {i}

\* C6: a line is classified as a heading by the heading detector if and only
\* if its trimmed text has at least 3 characters, its rubric score is at
\* least 6 and its font is large relative to the page (>= 1.2 x mean and >=
\* 75th percentile, or >= mean + 2).
C6_HeadingIffRubricAndLargeFont ==
    pc # "start" =>
        \A i \in 1..Len(textLines) :
            C6_IsHeadingLine(i) <=>
                /\ Len(trim(textLines[i].text)) >= 3
                /\ C6_Rubric(i) >= 6
                /\ C6_LargeFont(i)

\* witness of C6: the detector has run on a page with a heading, a line
\* scoring 6 without a large font, and a large-font line that is no heading
C6_Witness ==
    /\ pc = "tables"
    /\ HeadingBlocks # {}
    /\ \E i \in 1..Len(textLines) :
          C6_Rubric(i) >= 6 /\ ~C6_LargeFont(i) /\ ~C6_IsHeadingLine(i)
    /\ \E i \in 1..Len(textLines) : C6_LargeFont(i) /\ ~C6_IsHeadingLine(i)

\* C7: every heading block produced by detectBlocks has a heading level in
\* the range 1 to 6.
C7_HeadingLevelInRange ==
    \A b \in HeadingBlocks : blocks[b].style.headingLevel \in 1..6

\* C8: the level of a detected heading without a numbering prefix is one plus
\* the number of distinct font sizes, among the lines detected as headings on
\* the page, that are strictly larger than its own (capped at 6).
C8_LevelIsRankAmongDetectedHeadings ==
    pc # "start" =>
        \A b \in HeadingBlocks :
            LET line == textLines[CHOOSE i \in blocks[b].srcLines : TRUE]
                larger == {blocks[c].style.fontSize : c \in HeadingBlocks} \cap
                          {v \in 1..100 : v > blocks[b].style.fontSize}
            IN  ~matchesHeadingNumbering(trim(line.text))
                   => blocks[b].style.headingLevel = Min({1 + Cardinality(larger), 6})

(* the "n." prefix of a line of the form "n. text" *)
C9_Prefix(text) == SubSeq(text, 1, SkipWhile(text, 1, DigitCh))
C9_Rest(text) == trim(SubSeq(text, SkipWhile(text, 1, DigitCh) + 1, Len(text)))

\* C9: for a run of consecutive numbered list-item lines "n. text",
\* detectBlocks produces one list block of type numbered with one item per
\* line, each item's marker being that line's prefix "n." and its content the
\* rest of the line.
C9_NumberedListMarkers ==
    (/\ pc = "done"
     /\ Len(textLines) >= 2
     /\ \A i \in 1..Len(textLines) : matchesNumberDot(textLines[i].text))
    => /\ Len(cleanedBlocks) = 1
       /\ cleanedBlocks[1].type = "list"
       /\ cleanedBlocks[1].content.type = "numbered"
       /\ Len(cleanedBlocks[1].content.items) = Len(textLines)
       /\ \A i \in 1..Len(textLines) :
             /\ cleanedBlocks[1].content.items[i].marker = C9_Prefix(textLines[i].text)
             /\ cleanedBlocks[1].content.items[i].content = C9_Rest(textLines[i].text)

(* the rounded X positions that occur in at least two different lines *)
C10_SharedPositions(group) ==
    LET xs(i) == {roundToTen(textLines[i].items[k].x) : k \in 1..Len(textLines[i].items)}
    IN  {q \in UNION {xs(i) : i \in group} :
            \E i, j \in group : i # j /\ q \in xs(i) /\ q \in xs(j)}

\* C10: a group of multi-column lines is emitted as a table only if at least
\* two rounded X positions each occur in at least two different lines of the
\* group, and at least one line contains a digit and splits into two or more
\* segments on runs of two or more spaces.
C10_TableOnlyIfSharedColumns ==
    \A b \in 1..Len(blocks) :
        blocks[b].type = "table" =>
            /\ Cardinality(C10_SharedPositions(blocks[b].srcLines)) >= 2
            /\ \E i \in blocks[b].srcLines :
                  /\ \E k \in 1..Len(textLines[i].text) : IsDigit(textLines[i].text[k])
                  /\ splitOnSpaceRuns(textLines[i].text, 1) >= 2

----------------------------------------------------------------------------
(* Claims about exportModifiedPdf *)

PagesOfModel == 1..Len(documentModel)
BlocksOfPage(p) == {documentModel[p].blocks[k] : k \in 1..Len(documentModel[p].blocks)}
OpsOn(p) == IF p \in 1..Len(pdfPages) THEN pdfPages[p] ELSE <<>>
OpsOfBlock(p, id) == SelectSeq(OpsOn(p), LAMBDA o : o.block = id)
FlattenedText(block) ==
    IF block.content.kind = "string" THEN block.content.text ELSE getBlockTextContent(block)
IsBlankText(text) == \A k \in 1..Len(text) : text[k] \in SpaceCh

\* C2: after exportModifiedPdf has returned successfully, each edited block
\* with non-blank content has on its page exactly one white cover rectangle
\* followed by at least one line of text: the rectangle comes before the text.
C2_CoverThenText ==
    exportState = "saved" =>
        \A p \in PagesOfModel : \A block \in BlocksOfPage(p) :
            (block.metadata.isEdited /\ ~IsBlankText(FlattenedText(block))) =>
                LET ops == OpsOfBlock(p, block.id)
                IN  /\ Len(ops) >= 2
                    /\ ops[1].op = "rect" /\ ops[1].color = "white"
                    /\ \A k \in 2..Len(ops) : ops[k].op = "text"

\* witness of C2: a returned export that drew a wrapped block (several text
\* lines after its rectangle) and a one-line block
C2_Witness ==
    /\ exportState = "saved"
    /\ \E p \in PagesOfModel : \E block \in BlocksOfPage(p) :
          block.metadata.isEdited /\ Len(OpsOfBlock(p, block.id)) >= 3
    /\ \E p \in PagesOfModel : \E block \in BlocksOfPage(p) :
          block.metadata.isEdited /\ Len(OpsOfBlock(p, block.id)) = 2

\* C3: exportModifiedPdf issues no draw operation for a block that is not
\* marked edited, and none on a page without edited blocks.
C3_OnlyEditedBlocksDrawn ==
    \A p \in 1..Len(pdfPages) :
        /\ \A k \in 1..Len(pdfPages[p]) :
              \E block \in BlocksOfPage(p) :
                  block.id = pdfPages[p][k].block /\ block.metadata.isEdited
        /\ (\A block \in BlocksOfPage(p) : ~block.metadata.isEdited) => pdfPages[p] = <<>>

\* witness of C3: a returned export of a document with an unedited block, a
\* page without edited blocks, and a page that was drawn on
C3_Witness ==
    /\ exportState = "saved"
    /\ \E p \in PagesOfModel : \E block \in BlocksOfPage(p) : ~block.metadata.isEdited
    /\ \E p \in PagesOfModel : \A block \in BlocksOfPage(p) : ~block.metadata.isEdited
    /\ \E p \in PagesOfModel : OpsOn(p) # <<>>

(* the edited blocks applyBlockEdit has been called for *)
AppliedBlocks ==
    {block \in UNION {BlocksOfPage(p) : p \in PagesOfModel} :
        /\ block.metadata.isEdited
        /\ \E p \in PagesOfModel :
              /\ block \in BlocksOfPage(p)
              /\ exportState # "idle"
              /\ \/ p < pageIndex + 1
                 \/ /\ p = pageIndex + 1
                    /\ \E k \in 1..blockCursor :
                          editedBlocks(documentModel[p])[k].id = block.id}

\* C4: for an edited block whose content (a string, or the text flattened
\* from a list or table) is empty or only whitespace, nothing is drawn and no
\* font is embedded.
C4_BlankContentDrawsNothing ==
    \A p \in PagesOfModel : \A block \in BlocksOfPage(p) :
        (block.metadata.isEdited /\ IsBlankText(FlattenedText(block))) =>
            /\ OpsOfBlock(p, block.id) = <<>>
            /\ \A k \in 1..Len(embedded) : embedded[k].block # block.id

\* witness of C4: applyBlockEdit has been called for a block with whitespace
\* content and for a block whose flattened list or table text is empty
C4_Witness ==
    /\ \E block \in AppliedBlocks :
          block.content.kind = "string" /\ block.content.text # <<>>
             /\ IsBlankText(block.content.text)
    /\ \E block \in AppliedBlocks :
          block.content.kind # "string" /\ IsBlankText(FlattenedText(block))

\* C5: if applyBlockEdit raises for a block, the export skips that block,
\* applies the remaining edits and returns the PDF: the export does not fail
\* because of one block.
C5_FailedBlockIsSkipped ==
    raised # {} => exportState # "failed"

----------------------------------------------------------------------------
(* Claims about the paragraph grouper and the post-processing *)

RemainingLines == (1..Len(textLines)) \ processedLines

(* a comes right before b among the remaining lines sorted by Y *)
C11_Consecutive(a, b) ==
    /\ a \in RemainingLines /\ b \in RemainingLines /\ a # b
    /\ textLines[a].y < textLines[b].y \/ (textLines[a].y = textLines[b].y /\ a < b)
    /\ ~ \E c \in RemainingLines \ {a, b} :
            /\ textLines[a].y <= textLines[c].y
            /\ textLines[c].y <= textLines[b].y

C11_SameParagraph(a, b) ==
    \E k \in 1..Len(blocks) :
        blocks[k].type = "paragraph" /\ {a, b} \subseteq blocks[k].srcLines

C11_CloseAndSimilar(a, b) ==
    /\ Abs(textLines[a].y - textLines[b].y) <= 25
    /\ Abs(textLines[a].averageFontSize - textLines[b].averageFontSize) <= 2

\* C11: in the paragraph grouper, two lines that are consecutive among the
\* remaining lines sorted by Y, each of at least 3 characters, are in the
\* same paragraph block if and only if their vertical distance is at most 25
\* and their average font sizes differ by at most 2.
C11_MergedIffCloseAndSimilar ==
    pc \in {"post", "done"} =>
        \A a, b \in 1..Len(textLines) :
            (/\ C11_Consecutive(a, b)
             /\ Len(trim(textLines[a].text)) >= 3
             /\ Len(trim(textLines[b].text)) >= 3)
            => (C11_SameParagraph(a, b) <=> C11_CloseAndSimilar(a, b))

\* witness of C11: the grouper merged one pair of consecutive lines and split
\* another pair that is close but differs in font size by more than 2
C11_Witness ==
    /\ pc = "post"
    /\ \E a, b \in 1..Len(textLines) :
          C11_Consecutive(a, b) /\ C11_SameParagraph(a, b)
    /\ \E a, b \in 1..Len(textLines) :
          /\ C11_Consecutive(a, b) /\ ~C11_SameParagraph(a, b)
          /\ Abs(textLines[a].y - textLines[b].y) <= 25
          /\ Abs(textLines[a].averageFontSize - textLines[b].averageFontSize) > 2

C12_WithinBounds(block) ==
    /\ block.position.width >= 10
    /\ block.position.height >= 5
    /\ block.content.kind = "string" => Len(trim(block.content.text)) >= 3

\* C12: the blocks returned by detectBlocks are exactly the detected blocks
\* with width >= 10, height >= 5 and, when the content is a string, a trimmed
\* content of at least 3 characters: every returned block satisfies the
\* bounds and no block satisfying them is discarded.
C12_ReturnedAreExactlyTheBlocksWithinBounds ==
    pc = "done" =>
        /\ \A k \in 1..Len(cleanedBlocks) :
              /\ C12_WithinBounds(cleanedBlocks[k])
              /\ \E j \in 1..Len(blocks) : blocks[j] = cleanedBlocks[k]
        /\ \A j \in 1..Len(blocks) :
              C12_WithinBounds(blocks[j])
                 => \E k \in 1..Len(cleanedBlocks) : cleanedBlocks[k] = blocks[j]
        /\ Len(cleanedBlocks) =
              Cardinality({j \in 1..Len(blocks) : C12_WithinBounds(blocks[j])})

\* witness of C12: a finished run that kept a block, discarded one for its
\* size and discarded one for its short text
C12_Witness ==
    /\ pc = "done"
    /\ Len(cleanedBlocks) >= 1
    /\ \E j \in 1..Len(blocks) :
          blocks[j].position.width < 10 \/ blocks[j].position.height < 5
    /\ \E j \in 1..Len(blocks) :
          /\ blocks[j].position.width >= 10 /\ blocks[j].position.height >= 5
          /\ Len(trim(blocks[j].content.text)) < 3

----------------------------------------------------------------------------
(* Claims about repeated detection *)

(* what the claim compares of a block list: types, positions, confidences *)
C13_Outline(bs) ==
    [k \in 1..Len(bs) |->
        [type |-> bs[k].type, position |-> bs[k].position,
         confidence |-> bs[k].metadata.confidence]]

----------------------------------------------------------------------------
(* Claims about applyBlockEdit and getFont *)

BlockOfOp(p, o) == CHOOSE block \in BlocksOfPage(p) : block.id = o.block

\* C14: the white cover rectangle drawn for an edited block with non-blank
\* content is the block's bounding box in PDF space expanded by 2 units on
\* every side: origin (x - 2, pageHeight - y - height - 2), width + 4,
\* height + 4.
C14_CoverIsBoxPaddedByTwo ==
    \A p \in 1..Len(pdfPages) : \A k \in 1..Len(pdfPages[p]) :
        LET o == pdfPages[p][k]
            pos == BlockOfOp(p, o).position
        IN  o.op = "rect" =>
                /\ o.x = pos.x - 2
                /\ o.y = PdfPageSize.height - pos.y - pos.height - 2
                /\ o.width = pos.width + 4
                /\ o.height = pos.height + 4

AllExportBlocks == UNION {BlocksOfPage(p) : p \in PagesOfModel}
BlockOfCall(c) == CHOOSE block \in AllExportBlocks : block.id = c.block

(* the embedFont calls that are getFont's selection, not its fallback *)
SelectionCalls ==
    {k \in 1..Len(embedded) : k = 1 \/ embedded[k - 1].block # embedded[k].block}

FontFamilyOf(font) ==
    CASE font \in {"Courier", "CourierBold", "CourierOblique", "CourierBoldOblique"} -> "monospace"
      [] font \in {"TimesRoman", "TimesRomanBold", "TimesRomanItalic",
                   "TimesRomanBoldItalic"} -> "serif"
      [] OTHER -> "sans-serif"

C15_ExpectedFamily(block) ==
    LET family == toLowerCase(block.style.fontFamily)
    IN  IF \/ includes(family, <<"m","o","n","o">>)
           \/ includes(family, <<"c","o","u","r","i","e","r">>)
           \/ block.type = "code"
        THEN "monospace"
        ELSE IF block.style.fontFamily = ArialSansSerif THEN "sans-serif"
        ELSE IF \/ includes(family, <<"t","i","m","e","s">>)
                \/ includes(family, <<"s","e","r","i","f">>)
        THEN "serif"
        ELSE "sans-serif"

\* C15: getFont picks the font family by substring match on the block's font
\* family: monospace for mono/courier families or code blocks, serif for
\* times/serif families, and sans-serif for every other family, including the
\* Document Model's default family 'Arial, sans-serif'.
C15_FamilyBySubstring ==
    \A k \in SelectionCalls :
        FontFamilyOf(embedded[k].font) = C15_ExpectedFamily(BlockOfCall(embedded[k]))

BoldFaces ==
    {"CourierBold", "CourierBoldOblique", "TimesRomanBold", "TimesRomanBoldItalic",
     "HelveticaBold", "HelveticaBoldOblique"}
ItalicFaces ==
    {"CourierOblique", "CourierBoldOblique", "TimesRomanItalic", "TimesRomanBoldItalic",
     "HelveticaOblique", "HelveticaBoldOblique"}

\* C16: whatever family getFont selects, the face it returns is the bold
\* variant exactly when the block's fontWeight is bold and the italic variant
\* exactly when its fontStyle is italic (bold-italic when both hold).
C16_FaceFollowsWeightAndStyle ==
    \A k \in SelectionCalls :
        LET block == BlockOfCall(embedded[k])
        IN  /\ embedded[k].font \in BoldFaces <=> block.style.fontWeight = "bold"
            /\ embedded[k].font \in ItalicFaces <=> block.style.fontStyle = "italic"

\* C19: applyBlockEdit draws no line whose baseline Y is below the block's
\* bottom edge in PDF space (textY < pdfY): rendering stops before such a
\* line.
C19_NoLineBelowBottomEdge ==
    \A p \in 1..Len(pdfPages) : \A k \in 1..Len(pdfPages[p]) :
        LET o == pdfPages[p][k]
            pos == BlockOfOp(p, o).position
        IN  o.op = "text" =>
                o.y300 >= 300 * (PdfPageSize.height - pos.y - pos.height)

----------------------------------------------------------------------------
(* Claims about wrapText and wrapTextIntelligently *)

WordsOfText(text) ==
    {splitOnWhitespace(text)[k] : k \in 1..Len(splitOnWhitespace(text))} \ {<<>>}
WordsOnLines(lines) ==
    UNION {{splitOnWhitespace(lines[i])[k] : k \in 1..Len(splitOnWhitespace(lines[i]))} :
              i \in 1..Len(lines)}
BudgetOf(block) == maxCharsPerLine(block.position.width, calculateFontSize10(block))
DrawnBlocks == {block \in AppliedBlocks : ~IsBlankText(FlattenedText(block))}

\* C17: wrapText hyphen-breaks a word exactly when the word is longer than
\* twice the per-line character budget (a word of at most twice the budget
\* stays whole on a line), and no fragment of a broken word that is placed
\* on a line is longer than the budget.
C17_BreaksOnlyAboveTwiceBudget ==
    \A block \in DrawnBlocks :
        LET text == FlattenedText(block)
            lines == wrapText(text, block.position.width, calculateFontSize10(block))
            words == WordsOfText(text)
            placed == WordsOnLines(lines)
        IN  /\ \A word \in words : word \notin placed <=> Len(word) > 2 * BudgetOf(block)
            /\ \A fragment \in placed \ words : Len(fragment) <= BudgetOf(block)

\* C18: every line returned by wrapTextIntelligently either fits the per-line
\* character budget derived from the block width and the font size, or is a
\* single unbroken word of the text whose length is at most twice that budget.
C18_LineFitsOrIsOneWord ==
    \A block \in DrawnBlocks :
        LET text == FlattenedText(block)
            lines == wrapTextIntelligently(text, block.position.width,
                                           calculateFontSize10(block))
        IN  \A i \in 1..Len(lines) :
                \/ Len(lines[i]) <= BudgetOf(block)
                \/ /\ lines[i] \in WordsOfText(text)
                   /\ Len(lines[i]) <= 2 * BudgetOf(block)

----------------------------------------------------------------------------
(* Claims about the editor *)

ContentKindOf(type) ==
    CASE type \in StringBlockTypes -> "string"
      [] type = "table" -> "table"
      [] type = "list" -> "list"
      [] OTHER -> "image"

\* C20: in every document model reached from a parsed document by the
\* editor's operations (change block type, edit content, save, cancel,
\* delete, add text box) each block's content has the shape of its declared
\* type: a string for paragraph, heading, quote and code, a table structure
\* for table, a list structure for list.
C20_ContentShapeMatchesType ==
    \A block \in AllExportBlocks : block.content.kind = ContentKindOf(block.type)

BlocksOf(pages) ==
    UNION {{pages[p].blocks[k] : k \in 1..Len(pages[p].blocks)} : p \in 1..Len(pages)}

\* C21: every editor step that changes a block's content, style or position
\* in the document model (save from the block editor, the update at the end
\* of a drag, adding a text box) leaves that block with metadata.isEdited
\* true.
C21_ChangedBlockIsEdited ==
    [][\A after \in BlocksOf(documentModel') :
          LET before == {b \in BlocksOf(documentModel) : b.id = after.id}
          IN  (\/ before = {}
               \/ \E b \in before : \/ b.content # after.content
                                    \/ b.style # after.style
                                    \/ b.position # after.position)
                  => after.metadata.isEdited]_vars

C21_Witness ==
    \E block \in AllExportBlocks :
        /\ block.position.x = 60
        /\ block.content = StringContent(Hi)
        /\ block.style.fontWeight = "bold"
        /\ block.metadata.isEdited

C23_FontEmbeddedAtMostOnce ==
    \A i, j \in 1..Len(embedded) :
        (i # j /\ embedded[i].ok /\ embedded[j].ok) =>
            \/ embedded[i].font # embedded[j].font
            \/ LET a == BlockOfCall(embedded[i]).style
                   b == BlockOfCall(embedded[j]).style
               IN  <<a.fontFamily, a.fontWeight, a.fontStyle>> #
                   <<b.fontFamily, b.fontWeight, b.fontStyle>>

----------------------------------------------------------------------------
(* Claims about the Line Builder *)

RunGap(current, next) == next.x - (current.x + current.width)
IsSmallGap(current, next) ==
    200 * RunGap(current, next) <= 15 * (current.fontSize + next.fontSize)
IsLargeGap(current, next) ==
    20 * RunGap(current, next) >= 4 * (current.fontSize + next.fontSize)
SpaceExpected(current, next) ==
    IF IsSmallGap(current, next) THEN FALSE
    ELSE IF IsLargeGap(current, next) THEN TRUE
    ELSE IsAlnum(current.text[Len(current.text)]) /\ IsAlnum(next.text[1])

RECURSIVE ExpectedLineText(_, _)
ExpectedLineText(items, i) ==
    IF i > Len(items) THEN <<>>
    ELSE items[i].text
         \o (IF i < Len(items) /\ SpaceExpected(items[i], items[i + 1]) THEN <<" ">> ELSE <<>>)
         \o ExpectedLineText(items, i + 1)

C25_RunsWithinToleranceOfAnchor ==
    \A k \in 1..Len(currentLineItems) :
        Abs(currentLineItems[k].y10 - currentLineItems[1].y10) <= 10 * tolerance

----------------------------------------------------------------------------
(* Claims about the text the detectors keep *)

WithoutSpaces(s) == SelectSeq(s, LAMBDA c : c \notin SpaceCh)

(* the text of the line is kept by the block: in its string content, in    *)
(* the marker and content of one of its list items, or, run by run, in the *)
(* cells of its table                                                      *)
BlockKeepsLine(block, line) ==
    CASE block.content.kind = "string" ->
           includes(block.content.text, trim(line.text))
      [] block.content.kind = "list" ->
           \E k \in 1..Len(block.content.items) :
               WithoutSpaces(block.content.items[k].marker \o block.content.items[k].content)
                   = WithoutSpaces(line.text)
      [] block.content.kind = "table" ->
           \A i \in 1..Len(line.items) :
               \E r \in 1..Len(block.content.rows) :
                   \E c \in 1..Len(block.content.rows[r].cells) :
                       includes(block.content.rows[r].cells[c].content, trim(line.items[i].text))
      [] OTHER -> FALSE

\* C26: once the four detectors have run (before post-processing), every
\* input line whose trimmed text is not empty has its text in at least one
\* of the blocks they built: the classifier loses no text.
C26_NoLineTextLost ==
    pc \in {"post", "done"} =>
        \A i \in 1..Len(textLines) :
            trim(textLines[i].text) # <<>> =>
                \E b \in 1..Len(blocks) : BlockKeepsLine(blocks[b], textLines[i])

----------------------------------------------------------------------------
(* Claims about the order of the drawing operations of a page *)

\* C27: on any one page no cover rectangle is drawn after the replacement
\* text of another edited block of that page, so the padded cover of one
\* block cannot paint over the new text of a neighbouring block.
C27_NoCoverAfterOtherBlocksText ==
    \A p \in 1..Len(pdfPages) :
        \A i, j \in 1..Len(pdfPages[p]) :
            (i < j /\ pdfPages[p][i].op = "text" /\ pdfPages[p][j].op = "rect")
                => pdfPages[p][i].block = pdfPages[p][j].block

----------------------------------------------------------------------------
(* Claims about the type of a list *)

(* the type the marker at the start of a line stands for: digits, then     *)
(* roman-numeral letters only, then any other single letter                *)
MarkerType(text) ==
    LET p == SkipWhile(text, 1, DigitCh)
        r == SkipWhile(text, 1, RomanCh)
    IN  IF p > 1 /\ p <= Len(text) /\ text[p] \in DotParenCh THEN "numbered"
        ELSE IF r > 1 /\ r <= Len(text) /\ text[r] \in DotParenCh THEN "roman"
        ELSE IF Len(text) >= 2 /\ text[1] \in LowerCh \cup UpperCh /\ text[2] \in DotParenCh
             THEN "alpha"
        ELSE "bullet"

FirstLineOf(block) == CHOOSE i \in block.srcLines : \A j \in block.srcLines : i <= j

\* C28: the type of a list block follows the marker of its first item:
\* 'numbered' for digits, 'roman' for roman-numeral letters only ("i.",
\* "iv)"), 'alpha' for any other single letter and 'bullet' otherwise; and
\* isOrdered is true exactly when the type is not 'bullet'.
C28_ListTypeFollowsFirstMarker ==
    \A b \in 1..Len(blocks) :
        blocks[b].type = "list" =>
            /\ blocks[b].content.type = MarkerType(trim(textLines[FirstLineOf(blocks[b])].text))
            /\ blocks[b].content.isOrdered = (blocks[b].content.type # "bullet")

----------------------------------------------------------------------------
(* Claims about the cells of a table *)

(* the lines a block was built from, top to bottom *)
RECURSIVE LinesOfBlock(_)
LinesOfBlock(indices) ==
    IF indices = {} THEN <<>>
    ELSE LET first == CHOOSE i \in indices : \A j \in indices : i <= j
         IN  <<textLines[first]>> \o LinesOfBlock(indices \ {first})

(* the column nearest to the X of a run, the leftmost one on a tie *)
NearestColumn(run, columns) ==
    CHOOSE c \in 1..Len(columns) :
        /\ \A d \in 1..Len(columns) : Abs(run.x - columns[c]) <= Abs(run.x - columns[d])
        /\ \A d \in 1..(c - 1) : Abs(run.x - columns[d]) > Abs(run.x - columns[c])

RunTextsOf(runs) == [k \in 1..Len(runs) |-> runs[k].text]

(* the runs of a line that belong to column c, left to right, as one text *)
CellTextOf(line, columns, c) ==
    trim(JoinWith(RunTextsOf(SelectSeq(line.items,
                                       LAMBDA run : NearestColumn(run, columns) = c)),
                  <<" ">>))

\* C29: every table block produced by detectBlocks has columnCount >= 2,
\* every one of its rows has exactly columnCount cells, and every glyph run
\* of a table line is in exactly one cell of its row, the cell of the
\* column position nearest to the run's X (the leftmost one on a tie).
C29_TableCellsFollowColumns ==
    \A b \in 1..Len(blocks) :
        blocks[b].type = "table" =>
            LET table == blocks[b].content
                lines == LinesOfBlock(blocks[b].srcLines)
                columns == extractColumnPositions(lines)
            IN  /\ table.columnCount >= 2
                /\ Len(table.rows) = Len(lines)
                /\ \A r \in 1..Len(table.rows) :
                     /\ Len(table.rows[r].cells) = table.columnCount
                     /\ \A c \in 1..table.columnCount :
                          table.rows[r].cells[c].content = CellTextOf(lines[r], columns, c)

(* a table with a row whose middle run is as near to the first column as   *)
(* to the second, and lands in the first                                   *)
C29_Witness ==
    \E b \in 1..Len(blocks) :
        /\ blocks[b].type = "table"
        /\ blocks[b].content.columnCount = 2
        /\ \E r \in 1..Len(blocks[b].content.rows) :
             /\ blocks[b].content.rows[r].cells[1].content = <<"5"," ","m">>
             /\ blocks[b].content.rows[r].cells[2].content = <<"z">>

----------------------------------------------------------------------------
(* Claims about the status of an OCR job *)

StatusRank(status) ==
    CASE status = "none" -> 0
      [] status = "pending" -> 1
      [] status = "processing" -> 2
      [] OTHER -> 3

\* C30: the status of a background OCR job only moves forward, pending,
\* processing, then complete or error, whatever step of processOcrJob
\* fails: once it is 'complete' or 'error' it never changes again, the
\* progress never decreases, and status 'complete' implies progress 100.
C30_JobStatusOnlyMovesForward ==
    /\ [](job.status = "complete" => job.progress = 100)
    /\ [][/\ StatusRank(job'.status) >= StatusRank(job.status)
          /\ job.status \in {"complete", "error"} => job'.status = job.status
          /\ job'.progress >= job.progress]_vars

(* the upload of the result failed after the progress reached 80, and the *)
(* job was marked failed                                                  *)
C30_Witness ==
    /\ job = [status |-> "error", progress |-> 80]
    /\ documentStatus = "error"
    /\ ocrPc = "done"

====
